---- MODULE Spec2Model ----
(***************************************************************************)
(* A model of the frontier-driven crawler of base_crawler.py               *)
(* (BaseCrawler.crawl_domain and the methods it calls) over a Redis-like   *)
(* set store.  Strings are sequences of one-character strings, so that     *)
(* substring tests, prefixes and the URL regular expression are computed   *)
(* as the code computes them.  Every Redis call is one step of a process,  *)
(* which makes the states between two store operations observable.        *)
(***************************************************************************)
EXTENDS Integers, Sequences, FiniteSets, TLC

VARIABLES
    in_progress,   \* Redis set  "<domain>:in_progress"   (rkey(0))
    finished,      \* Redis set  "<domain>:finished"      (rkey(1))
    errored,       \* Redis set  "<domain>:errored"       (rkey(2))
    count,         \* Redis list "<domain>:count"         (rkey(3))
    files,         \* names of the page files written under download_path
    crawler_errors,\* the records of download_path/crawler_errors.jsonl
    job,           \* the BaseCrawler object's configuration attributes
    run,           \* how many crawler instances have been started so far
    local          \* per process: position in crawl_domain and its locals

vars ==
    <<in_progress, finished, errored, count, files, crawler_errors, job, run,
      local>>

-----------------------------------------------------------------------------
(* Bounds of the model                                                     *)

\* number of crawler instances (process runs) started one after another
MaxRuns == 2

\* a page budget small enough to be hit by the modelled sites
SmallLimit == 2

\* kwargs.get('limit', 1000)
DefaultLimit == 1000

\* how often the in_progress size is sampled: page_count % 10
SampleEvery == 10

\* paths longer than this are skipped by skip_link
MaxPathLen == 120

-----------------------------------------------------------------------------
(* Strings                                                                 *)

\* Python's None; a one-element sequence no character string can equal
None == <<"None">>

\* Python truthiness of a str-or-None value: `not x`
Falsy(x) == x = None \/ x = <<>>

\* str(x) for a str-or-None value
Str(x) == IF x = None THEN <<"N", "o", "n", "e">> ELSE x

\* `t in s` for two strings
HasSub(s, t) ==
    \E i \in 0..(Len(s) - Len(t)) : SubSeq(s, i + 1, i + Len(t)) = t

\* s.startswith(t)
StartsWith(s, t) == Len(s) >= Len(t) /\ SubSeq(s, 1, Len(t)) = t

\* s[n:]
Drop(s, n) == SubSeq(s, n + 1, Len(s))

\* index of the first "/" of s at or after position j; 0 when there is none
FirstSlash(s, j) ==
    LET at == {k \in j..Len(s) : s[k] = "/"}
    IN  IF at = {} THEN 0 ELSE CHOOSE k \in at : \A m \in at : k <= m

\* a result of a failed regular-expression match
NoMatch == [ok |-> FALSE, scheme |-> None, host |-> None, path |-> None]

\* (?P<host>(?:www\.)?[^/]+\.[^/]+)(?P<path>/.+) matched at position j of s:
\* the host is everything up to the first "/", it must hold a "." with a
\* character on both sides, and the path is the "/" and at least one more
\* character
HostPathAt(s, j, scheme) ==
    LET k == FirstSlash(s, j)
    IN  IF /\ k > j
           /\ k < Len(s)
           /\ \E m \in (j + 1)..(k - 2) : s[m] = "."
        THEN [ok |-> TRUE, scheme |-> scheme,
              host |-> SubSeq(s, j, k - 1), path |-> SubSeq(s, k, Len(s))]
        ELSE NoMatch

HTTP == <<"h", "t", "t", "p">>
HTTPS == <<"h", "t", "t", "p", "s">>
SchemeSep == <<":", "/", "/">>

\* url_reg matched at position i: the optional scheme group is tried first
\* ("https" before "http"), then the match without a scheme
UrlRegAt(s, i) ==
    LET rest == Drop(s, i - 1)
        withS == IF StartsWith(rest, HTTPS \o SchemeSep)
                 THEN HostPathAt(s, i + 8, HTTPS)
                 ELSE IF StartsWith(rest, HTTP \o SchemeSep)
                      THEN HostPathAt(s, i + 7, HTTP)
                      ELSE NoMatch
    IN  IF withS.ok THEN withS ELSE HostPathAt(s, i, None)

\* re.search(url_reg, url): the match at the leftmost position that has one
UrlRegSearch(s) ==
    LET at == {i \in 1..Len(s) : UrlRegAt(s, i).ok}
    IN  IF at = {} THEN NoMatch
        ELSE UrlRegAt(s, CHOOSE i \in at : \A m \in at : i <= m)

\* BaseCrawler.url_parts: <<scheme, domain, path>>
url_parts(url) ==
    LET match == UrlRegSearch(url)
    IN  IF ~match.ok
        THEN <<None, None,
               IF StartsWith(url, <<"/">>) THEN url ELSE <<"/">> \o url>>
        ELSE <<match.scheme, match.host, match.path>>

-----------------------------------------------------------------------------
(* Link handling: the pure methods of BaseCrawler                          *)

\* s.lstrip(chars): drops every leading character that is in the set chars
RECURSIVE lstrip(_, _)
lstrip(s, chars) ==
    IF s # <<>> /\ Head(s) \in chars THEN lstrip(Tail(s), chars) ELSE s

\* s.rstrip(chars)
RECURSIVE rstrip(_, _)
rstrip(s, chars) ==
    IF s # <<>> /\ s[Len(s)] \in chars
    THEN rstrip(SubSeq(s, 1, Len(s) - 1), chars) ELSE s

\* s.replace(old, new) for a one-character old
RECURSIVE replace(_, _, _)
replace(s, old, new) ==
    IF s = <<>> THEN <<>>
    ELSE (IF Head(s) = old THEN new ELSE <<Head(s)>>)
         \o replace(Tail(s), old, new)

\* the regular expression //(?P<domain>[^/]{3,})(?P<path>/.*) at position i
ScaryRegAt(s, i) ==
    LET k == FirstSlash(s, i + 2)
    IN  IF /\ i + 1 <= Len(s)
           /\ s[i] = "/" /\ s[i + 1] = "/"
           /\ k >= i + 5
        THEN [ok |-> TRUE, scheme |-> None,
              host |-> SubSeq(s, i + 2, k - 1), path |-> SubSeq(s, k, Len(s))]
        ELSE NoMatch

\* BaseCrawler.url_from_href: [raised, domain, path]; raised is the
\* 'Scary path' exception of a protocol-relative href that does not match
url_from_href(href_url) ==
    IF StartsWith(href_url, <<"/", "/">>)
    THEN LET at == {i \in 1..Len(href_url) : ScaryRegAt(href_url, i).ok}
         IN  IF at = {}
             THEN [raised |-> TRUE, domain |-> None, path |-> None]
             ELSE LET m == ScaryRegAt(href_url,
                                      CHOOSE i \in at : \A j \in at : i <= j)
                  IN  [raised |-> FALSE, domain |-> m.host, path |-> m.path]
    ELSE IF StartsWith(href_url, <<"/", ".", ".", "/">>)
    THEN [raised |-> FALSE, domain |-> None, path |-> Drop(href_url, 3)]
    ELSE IF StartsWith(href_url, <<"/">>)
    THEN [raised |-> FALSE, domain |-> None, path |-> href_url]
    ELSE LET parts == url_parts(href_url)
         IN  [raised |-> FALSE, domain |-> parts[2], path |-> parts[3]]

\* BaseCrawler.messy_path
messy_path(link_path) == HasSub(link_path, HTTP)

\* avoid_link that never finds a substring
avoid_link_off(avoid, link_path) == FALSE

\* BaseCrawler.avoid_link; avoid is the job's set of substrings
avoid_link(avoid, link_path) ==
    \E substring \in avoid : HasSub(link_path, substring)

\* BaseCrawler.same_domains
same_domains(self_domain, domain) ==
    \/ Falsy(domain)
    \/ rstrip(lstrip(self_domain, {"w", "."}), {"/"})
         = rstrip(lstrip(domain, {"w", "."}), {"/"})

\* Redis set commands on a set value
scard(set) == Cardinality(set)
sadd(set, value) == set \cup {value}
srem(set, value) == set \ {value}
sismember(set, value) == value \in set

\* skip_link without the test of the length
skip_link_any_length(self, fin, err, link_domain, link_path) ==
    \/ Falsy(link_path)
    \/ ~same_domains(self.domain, link_domain)
    \/ sismember(fin, link_path)
    \/ sismember(err, link_path)
    \/ avoid_link(self.avoid, link_path)
    \/ messy_path(link_path)

\* skip_link without the test of the finished set
skip_link_unfinished(self, fin, err, link_domain, link_path) ==
    \/ Falsy(link_path)
    \/ Len(link_path) > MaxPathLen
    \/ ~same_domains(self.domain, link_domain)
    \/ sismember(err, link_path)
    \/ avoid_link(self.avoid, link_path)
    \/ messy_path(link_path)

\* skip_link without the test of the errored set
skip_link_unerrored(self, fin, err, link_domain, link_path) ==
    \/ Falsy(link_path)
    \/ Len(link_path) > MaxPathLen
    \/ ~same_domains(self.domain, link_domain)
    \/ sismember(fin, link_path)
    \/ avoid_link(self.avoid, link_path)
    \/ messy_path(link_path)

\* BaseCrawler.skip_link, reading the finished and errored sets fin and err
skip_link(self, fin, err, link_domain, link_path) ==
    \/ Falsy(link_path)
    \/ Len(link_path) > MaxPathLen
    \/ ~same_domains(self.domain, link_domain)
    \/ sismember(fin, link_path)
    \/ sismember(err, link_path)
    \/ avoid_link(self.avoid, link_path)
    \/ messy_path(link_path)

\* str(link).lower() of an anchor element, as far as the class and the href
\* show in it
LinkText(link) ==
    link.cls \o <<" ">> \o (IF link.href = None THEN <<>> ELSE link.href)

HIDDEN == <<"h", "i", "d", "d", "e", "n">>
OVERFLOW_HIDDEN ==
    <<"o", "v", "e", "r", "f", "l", "o", "w", "-">> \o HIDDEN

\* the 'hidden' test at the head of the loop of add_links
hidden_link(link) ==
    HasSub(LinkText(link), HIDDEN) /\ ~HasSub(LinkText(link), OVERFLOW_HIDDEN)

\* BaseCrawler.page_links; soup is the sequence of the page's anchors and
\* allow the job's list of substrings
RECURSIVE page_links_allow(_, _)
page_links_allow(allow, soup) ==
    IF allow = <<>> THEN <<>>
    ELSE LET InHref(link) == HasSub(Str(link.href), Head(allow))
         IN  SelectSeq(soup, InHref) \o page_links_allow(Tail(allow), soup)

\* page_links that returns links only for a job with an allow list
page_links_allow_only(allow, soup) ==
    IF allow # <<>> THEN page_links_allow(allow, soup) ELSE <<>>

page_links(allow, soup) ==
    IF allow # <<>>
    THEN page_links_allow(allow, soup)
    ELSE LET HrefAndText(link) == link.href # None /\ link.text
         IN  SelectSeq(soup, HrefAndText)

\* the file name download_page derives from a path
file_name(path) ==
    replace(lstrip(path, {"/"}), "/", <<"_", "-", "_">>)

-----------------------------------------------------------------------------
(* The crawled sites and the crawl jobs                                    *)

WEBSITE == <<"w", "e", "b", "s", "i", "t", "e", ".", "c", "o", "m">>
HOME == <<"/", "h", "o", "m", "e">>
PATH1 == <<"/", "p", "a", "t", "h", "1">>
PATH2 == <<"/", "p", "a", "t", "h", "2">>
PATH3 == <<"/", "p", "a", "t", "h", "3">>

\* f"https://{domain}/{path}" of TestSiteCrawl.setUp
START_URL == HTTPS \o SchemeSep \o WEBSITE \o HOME

\* an <a href=...>text</a> element of a page
Anchor(href) == [href |-> href, text |-> TRUE, cls |-> <<>>]

\* an anchor that shows the word 'hidden' in its class attribute
HiddenAnchor(href) == [href |-> href, text |-> TRUE, cls |-> HIDDEN]

\* a response object, as far as crawl_domain reads it: retries.redirect,
\* geturl() and data (the anchors of the parsed page); raised names the
\* exception get_response raised instead of returning
Response(redirect, url, data) ==
    [raised |-> "", redirect |-> redirect, url |-> url, data |-> data]
Raised(exception) ==
    [raised |-> exception, redirect |-> 1, url |-> None, data |-> <<>>]
NoResponse == Raised("")

\* the mock site of the tests: home -> {path1, path2}, path2 -> path3
pages ==
    [u \in {START_URL} |-> <<Anchor(PATH1), Anchor(PATH2)>>]
    @@ [u \in {HTTPS \o SchemeSep \o WEBSITE \o PATH1} |-> <<>>]
    @@ [u \in {HTTPS \o SchemeSep \o WEBSITE \o PATH2} |-> <<Anchor(PATH3)>>]
    @@ [u \in {HTTPS \o SchemeSep \o WEBSITE \o PATH3} |-> <<>>]

\* mocked_response / MockResponse: the page of the url, never redirected;
\* pages[url] of an unknown url raises KeyError
mocked_response(url) ==
    IF url \in DOMAIN pages
    THEN {Response(1, url, pages[url])}
    ELSE {Raised("KeyError")}

\* hrefs that skip_link turns down: a path of MaxPathLen + 1 characters, a
\* path with 'http' in it, a url of another domain; and the url of the start
\* page written with its domain
LONG_PATH == [i \in 1..(MaxPathLen + 1) |-> IF i = 1 THEN "/" ELSE "a"]
MESSY_PATH == <<"/", "x">> \o HTTP
ELSEWHERE == <<"o", "t", "h", "e", "r", ".", "o", "r", "g">> \o PATH1
HOME_URL == <<"w", "w", "w", ".">> \o WEBSITE \o HOME

\* pages a live site may answer with: no link, two new links, a malformed
\* protocol-relative href followed by a good link, and a page with a
\* hidden link, three links to turn down and a link back to the start
LivePages ==
    { <<>>,
      <<Anchor(PATH1), Anchor(PATH2)>>,
      <<Anchor(<<"/", "/", "x">>), Anchor(PATH2)>>,
      <<HiddenAnchor(PATH1), Anchor(LONG_PATH), Anchor(MESSY_PATH),
        Anchor(ELSEWHERE), Anchor(HOME_URL)>> }

\* final urls of a followed redirect; None stands for a response that
\* reports no url
LiveFinalUrls == {HTTPS \o SchemeSep \o WEBSITE \o PATH1, None}

\* the digits of str(n)
Digits == <<"0", "1", "2", "3", "4", "5", "6", "7", "8", "9">>

\* str(n) of a natural number, as the f-string of a path formats it
RECURSIVE str_int(_)
str_int(n) ==
    IF n < 10 THEN <<Digits[n + 1]>>
    ELSE str_int(n \div 10) \o <<Digits[(n % 10) + 1]>>

\* f'/search?page={page_number}'
SearchPath(page_number) ==
    <<"/", "s", "e", "a", "r", "c", "h", "?", "p", "a", "g", "e", "=">> \o str_int(page_number)

\* the start url of the search crawler and the paths of its site: the
\* search pages as the site spells them (with a "/" before the query), two
\* recipe pages and a page that is not a recipe
EPICURIOUS == <<"w", "w", "w", ".", "e", "p", "i", "c", "u", "r", "i", "o", "u", "s", ".", "c", "o", "m">>
SEARCH_URL == HTTPS \o SchemeSep \o EPICURIOUS \o <<"/", "s", "e", "a", "r", "c", "h", "/", "?", "p", "a", "g", "e", "=", "1">>
RECIPE_A == <<"/", "r", "e", "c", "i", "p", "e", "s", "/", "a">>
RECIPE_B == <<"/", "r", "e", "c", "i", "p", "e", "s", "/", "b">>
ABOUT == <<"/", "a", "b", "o", "u", "t">>
SlashSearchPath(page_number) ==
    <<"/", "s", "e", "a", "r", "c", "h", "/", "?", "p", "a", "g", "e", "=">> \o str_int(page_number)

\* the <h1>Don't Cry</h1> element of the page that ends the search results
DontCry == [href |-> None, text |-> TRUE, cls |-> <<>>, tag |-> "h1"]

\* EpicuriousCrawler.end_search_crawl
end_search_crawl(soup) ==
    \E i \in 1..Len(soup) : "tag" \in DOMAIN soup[i] /\ soup[i].tag = "h1"

\* a page of search results and the page after the last one
ResultsPage == <<Anchor(ABOUT), Anchor(RECIPE_A), Anchor(RECIPE_B)>>
SentinelPage == <<DontCry>>

\* the search site has results on its pages 1..LastPage
LastPage == 2

\* the hard limit of the page number
HardBound == 2500

\* the page numbers a call of the search loop starts on: 1, the default of
\* crawl_domain(page_number=1), and one that lets the cursor reach the
\* hard limit
SearchStarts == {1, HardBound - 1}

\* the page numbers whose request can go either way: the pages with
\* results, the first page after them, and the last two page numbers under
\* the hard limit; a request of any other page number is answered with the
\* sentinel page
VolatilePages == 1..(LastPage + 1) \cup (HardBound - 1)..HardBound

\* final urls of a followed redirect on the search site
EpicuriousFinalUrls ==
    {HTTPS \o SchemeSep \o EPICURIOUS \o SlashSearchPath(n) :
        n \in {1, LastPage + 1}}
    \cup {HTTPS \o SchemeSep \o EPICURIOUS \o RECIPE_B, None}

\* url_parts of every final url, evaluated once
FinalUrlParts ==
    [url \in (LiveFinalUrls \cup EpicuriousFinalUrls) \ {None} |->
        url_parts(url)]

\* get_response of the search page with a page number: the request of a
\* volatile page fails or answers directly; that of page 1 and of page
\* LastPage + 1 can also answer after the redirect to the site's spelling
\* of the path, and that of page 1 after a redirect that reports no url;
\* pages up to LastPage show results, later pages the sentinel
search_response(self, page_number) ==
    LET data == IF page_number <= LastPage THEN ResultsPage ELSE SentinelPage
        url == self.base_url \o SearchPath(page_number)
        final == self.base_url \o SlashSearchPath(page_number)
    IN  {Response(1, url, data)}
        \cup (IF page_number \in VolatilePages
              THEN {Raised("HTTPError")} ELSE {})
        \cup (IF page_number \in {1, LastPage + 1}
              THEN {Response(0, final, data)} ELSE {})
        \cup (IF page_number = 1
              THEN {Response(0, None, data)} ELSE {})

\* get_response of a path of the frontier in download_recipes: the request
\* fails or answers directly; the site redirects /recipes/a to /recipes/b
recipe_response(self, url) ==
    {Raised("HTTPError"), Response(1, url, <<>>)}
    \cup (IF url = self.base_url \o RECIPE_A
          THEN {Response(0, self.base_url \o RECIPE_B, <<>>)} ELSE {})

\* BaseCrawler.get_response against a live site: the request fails, or
\* answers directly (retries.redirect stays 1), or answers after one
\* followed redirect (retries.redirect is 0)
get_response(url) ==
    {Raised("HTTPError")}
    \cup {Response(1, url, data) : data \in LivePages}
    \cup {Response(0, final, data) : final \in LiveFinalUrls, data \in LivePages}

\* a site of ChainPages pages, numbered from 0, where page k links to the
\* pages k + 1 and k + 2: a crawl of it takes more than SampleEvery
\* iterations
ChainPages == 12
ChainPath(k) == <<"/", "c">> \o str_int(k)
CHAIN_URL == HTTPS \o SchemeSep \o WEBSITE \o ChainPath(0)
ChainPage(k) ==
    LET Link(i) == Anchor(ChainPath(k + i))
    IN  IF k + 2 < ChainPages THEN <<Link(1), Link(2)>>
        ELSE IF k + 1 < ChainPages THEN <<Link(1)>>
        ELSE <<>>

\* get_response against the chain site: the request fails or answers
\* directly with the page of the url
chain_response(self, url) ==
    {Raised("HTTPError")}
    \cup {Response(1, url, ChainPage(k)) :
            k \in {i \in 0..(ChainPages - 1) :
                      url = self.base_url \o ChainPath(i)}}

\* a site of three pages for two concurrent crawlers: the start page links
\* to /path2, the other pages link nowhere
PairPage(url) ==
    IF url = START_URL THEN <<Anchor(PATH2)>> ELSE <<>>

\* get_response against that site: the request fails or answers directly
\* with the page of the url; the site redirects /path2 to /path1
pair_response(self, url) ==
    {Raised("HTTPError"), Response(1, url, PairPage(url))}
    \cup (IF url = self.base_url \o PATH2
          THEN {Response(0, self.base_url \o PATH1, <<>>)} ELSE {})

\* what a request of the job's site can return
Transport(self, url) ==
    IF self.site = "mock" THEN mocked_response(url)
    ELSE IF self.site = "chain" THEN chain_response(self, url)
    ELSE IF self.site = "pair" THEN pair_response(self, url)
    ELSE get_response(url)

\* BaseCrawler.__init__ with prepare_url; site tells which transport the
\* crawler object uses (the patched one of the tests, or the real one)
BaseCrawler(site, start_url, allow, avoid, find_more_links, limit) ==
    LET parts == url_parts(start_url)
    IN  [site |-> site,
         start_url |-> start_url,
         base_url |-> Str(parts[1]) \o SchemeSep \o Str(parts[2]),
         scheme |-> parts[1],
         domain |-> parts[2],
         path |-> parts[3],
         allow |-> allow,
         avoid |-> avoid,
         find_more_links |-> find_more_links,
         limit |-> limit]

\* the avoid lists of the jobs: none, ['path2'] of test_avoiding_urls, and
\* ['path1'], which the path a live site redirects to contains
AvoidLists == { {}, {Tail(PATH2)}, {Tail(PATH1)} }

\* the allow lists of the jobs: none, and one required substring
AllowLists == { <<>>, << <<"p", "a", "t", "h">> >> }

\* the crawl jobs of the model; __init__ raises for a start url without a
\* domain, so every job has one
Jobs ==
    { j \in { BaseCrawler(site, START_URL, allow, avoid, fml, limit) :
                site \in {"mock", "live"},
                allow \in AllowLists, avoid \in AvoidLists,
                fml \in BOOLEAN, limit \in {SmallLimit, DefaultLimit} } :
        ~Falsy(j.domain) }

\* the hrefs of the anchors of a page
HrefsOf(soup) == {soup[i].href : i \in DOMAIN soup}

\* every href the pages of the sites show
Hrefs ==
    UNION ({HrefsOf(pages[u]) : u \in DOMAIN pages}
           \cup {HrefsOf(data) : data \in LivePages}
           \cup {HrefsOf(ChainPage(k)) : k \in 0..(ChainPages - 1)}
           \cup {HrefsOf(ResultsPage)})

\* url_from_href of every href, evaluated once
HrefParts == [href_url \in Hrefs |-> url_from_href(href_url)]

-----------------------------------------------------------------------------
(* Processes                                                               *)

Procs == {1}

\* the locals of crawl_domain before its first statement
FreshLocal ==
    [pc |-> "start", page_count |-> 0, iter_base |-> 0, frontier0 |-> 0,
     lost |-> {}, seeded |-> FALSE,
     next_path |-> None, current_url |-> None, response |-> NoResponse,
     old_path |-> None, new_path |-> None,
     links |-> <<>>, idx |-> 0, link_path |-> None, raised |-> ""]
\* (iter_base and frontier0 are not variables of the code and no step reads
\* them: iter_base keeps the value page_count had at the last loop test,
\* frontier0 the size of in_progress when the startup of lines 148-149 was
\* over, lost the paths a killed process had taken out of in_progress
\* without filing them anywhere, seeded whether this call of crawl_domain
\* has executed line 149)

\* the locals that are dead at the head of the while loop, cleared
EndIteration(l, pc) ==
    [l EXCEPT !.pc = pc, !.next_path = None, !.current_url = None,
              !.response = NoResponse, !.old_path = None, !.new_path = None,
              !.links = <<>>, !.idx = 0, !.link_path = None]

Init ==
    /\ in_progress = {}
    /\ finished = {}
    /\ errored = {}
    /\ count = <<>>
    /\ files = {}
    /\ crawler_errors = <<>>
    /\ job \in Jobs
    /\ run = 1
    /\ local = [p \in Procs |-> FreshLocal]

-----------------------------------------------------------------------------
(* BaseCrawler.crawl_domain, one step per store operation                  *)

At(p, pc) == local[p].pc = pc

Goto(p, pc) == local' = [local EXCEPT ![p].pc = pc]

\* a startup that goes to the seeding whatever in_progress holds
CheckInProgress_always(p) ==
    /\ At(p, "start")
    /\ local' = [local EXCEPT ![p].pc = "seed",
                              ![p].frontier0 = scard(in_progress)]
    /\ UNCHANGED <<in_progress, finished, errored, count, files, crawler_errors, job, run>>

\* line 148: if r.scard(in_progress) == 0
CheckInProgress(p) ==
    /\ At(p, "start")
    /\ local' = [local EXCEPT
                   ![p].pc = IF scard(in_progress) = 0 THEN "seed" ELSE "loop",
                   ![p].frontier0 = scard(in_progress)]
    /\ UNCHANGED <<in_progress, finished, errored, count, files, crawler_errors, job, run>>

\* line 149: r.sadd(in_progress, self.path)
Seed(p) ==
    /\ At(p, "seed")
    /\ in_progress' = sadd(in_progress, job.path)
    /\ local' = [local EXCEPT ![p].pc = "loop",
                              ![p].frontier0 = scard(in_progress'),
                              ![p].seeded = TRUE]
    /\ UNCHANGED <<finished, errored, count, files, crawler_errors, job, run>>

\* line 150: while r.scard(in_progress) > 0
LoopTest(p) ==
    /\ At(p, "loop")
    /\ local' = [local EXCEPT
                   ![p].pc = IF scard(in_progress) > 0 THEN "sample" ELSE "done",
                   ![p].iter_base = local[p].page_count]
    /\ UNCHANGED <<in_progress, finished, errored, count, files, crawler_errors, job, run>>

\* a sample at the head of every iteration
Sample_every_page(p) ==
    /\ At(p, "sample")
    /\ count' = Append(count, scard(in_progress))
    /\ Goto(p, "pick")
    /\ UNCHANGED <<in_progress, finished, errored, files, crawler_errors, job, run>>

\* lines 152-153: every 10 pages push the size of in_progress
Sample(p) ==
    /\ At(p, "sample")
    /\ count' = IF local[p].page_count % SampleEvery = 0
                THEN Append(count, scard(in_progress))
                ELSE count
    /\ Goto(p, "pick")
    /\ UNCHANGED <<in_progress, finished, errored, files, crawler_errors, job, run>>

\* a pick that takes the member out of the set (spop)
Pick_pop(p) ==
    /\ At(p, "pick")
    /\ in_progress # {}
    /\ \E member \in in_progress :
          /\ in_progress' = srem(in_progress, member)
          /\ local' = [local EXCEPT
                         ![p].pc = "fetch",
                         ![p].next_path = member,
                         ![p].current_url = job.base_url \o member]
    /\ UNCHANGED <<finished, errored, count, files, crawler_errors, job, run>>

\* lines 155-156: srandmember returns any member and does not remove it;
\* on an empty set it returns None and .decode() raises
Pick(p) ==
    /\ At(p, "pick")
    /\ IF in_progress = {}
       THEN local' = [local EXCEPT ![p].pc = "aborted",
                                   ![p].raised = "AttributeError"]
       ELSE \E member \in in_progress :
              local' = [local EXCEPT
                          ![p].pc = "fetch",
                          ![p].next_path = member,
                          ![p].current_url = job.base_url \o member]
    /\ UNCHANGED <<in_progress, finished, errored, count, files, crawler_errors, job, run>>

\* lines 159-161: the request; an exception goes to the handler of line 165
Fetch(p) ==
    /\ At(p, "fetch")
    /\ \E response \in Transport(job, local[p].current_url) :
         local' = [local EXCEPT
                     ![p].pc = IF response.raised # "" THEN "except"
                               ELSE IF response.redirect = 0 THEN "redirected"
                               ELSE "soup",
                     ![p].raised = response.raised,
                     ![p].response = response]
    /\ UNCHANGED <<in_progress, finished, errored, count, files, crawler_errors, job, run>>

\* handle_redirection, lines 202-205: the new path of the final url; a
\* response without a url makes re.search raise, a missing path raises
\* 'Missing redirected URL'; both are raised inside the try of line 158
HandleRedirection(p) ==
    /\ At(p, "redirected")
    /\ LET url == local[p].response.url
           new_path == IF url = None THEN None ELSE FinalUrlParts[url][3]
       IN  local' = [local EXCEPT
                       ![p].pc = IF Falsy(new_path) THEN "except" ELSE "hr_srem",
                       ![p].raised = IF url = None THEN "TypeError"
                                     ELSE IF Falsy(new_path) THEN "Exception"
                                     ELSE "",
                       ![p].old_path = local[p].next_path,
                       ![p].new_path = new_path]
    /\ UNCHANGED <<in_progress, finished, errored, count, files, crawler_errors, job, run>>

\* handle_redirection that forgets to remove the old path
HrSrem_skip(p) ==
    /\ At(p, "hr_srem")
    /\ Goto(p, "hr_sadd_finished")
    /\ UNCHANGED <<in_progress, finished, errored, count, files, crawler_errors, job, run>>

\* line 207: r.srem(in_progress, old_path)
HrSrem(p) ==
    /\ At(p, "hr_srem")
    /\ in_progress' = srem(in_progress, local[p].old_path)
    /\ Goto(p, "hr_sadd_finished")
    /\ UNCHANGED <<finished, errored, count, files, crawler_errors, job, run>>

\* line 208: r.sadd(finished, old_path)
HrSaddFinished(p) ==
    /\ At(p, "hr_sadd_finished")
    /\ finished' = sadd(finished, local[p].old_path)
    /\ Goto(p, "hr_sadd_in_progress")
    /\ UNCHANGED <<in_progress, errored, count, files, crawler_errors, job, run>>

\* lines 210-212 and 162: r.sadd(in_progress, new_path); next_path = new_path
HrSaddInProgress(p) ==
    /\ At(p, "hr_sadd_in_progress")
    /\ in_progress' = sadd(in_progress, local[p].new_path)
    /\ local' = [local EXCEPT ![p].pc = "soup",
                              ![p].next_path = local[p].new_path]
    /\ UNCHANGED <<finished, errored, count, files, crawler_errors, job, run>>

\* BaseCrawler.log_crawler_error: the record (error_dict) one call appends
\* to the file; the note key is there only for a note that is given
log_crawler_error(path, error, note) ==
    IF note = None
    THEN [path |-> path, error_type |-> error]
    ELSE [path |-> path, error_type |-> error, note |-> note]

\* a handler that logs nothing
LogCrawlerError_silent(p) ==
    /\ At(p, "except")
    /\ Goto(p, "ex_sadd")
    /\ UNCHANGED <<in_progress, finished, errored, count, files, crawler_errors, job, run>>

\* lines 165-169: the handler logs the error of next_path
LogCrawlerError(p) ==
    /\ At(p, "except")
    /\ crawler_errors' =
          Append(crawler_errors,
                 log_crawler_error(local[p].next_path, local[p].raised, None))
    /\ Goto(p, "ex_sadd")
    /\ UNCHANGED <<in_progress, finished, errored, count, files, job, run>>

\* an error handler that files the failed path under finished
ExSadd_finished(p) ==
    /\ At(p, "ex_sadd")
    /\ finished' = sadd(finished, local[p].next_path)
    /\ Goto(p, "ex_srem")
    /\ UNCHANGED <<in_progress, errored, count, files, crawler_errors, job, run>>

\* line 170: r.sadd(errored, next_path)
ExSadd(p) ==
    /\ At(p, "ex_sadd")
    /\ errored' = sadd(errored, local[p].next_path)
    /\ Goto(p, "ex_srem")
    /\ UNCHANGED <<in_progress, finished, count, files, crawler_errors, job, run>>

\* an error handler that does not count the failed page
ExSrem_uncounted(p) ==
    /\ At(p, "ex_srem")
    /\ in_progress' = srem(in_progress, local[p].next_path)
    /\ local' = [local EXCEPT
                   ![p] = EndIteration([local[p] EXCEPT !.raised = ""], "loop")]
    /\ UNCHANGED <<finished, errored, count, files, crawler_errors, job, run>>

\* an error handler that leaves the failed path in in_progress
ExSrem_keep(p) ==
    /\ At(p, "ex_srem")
    /\ local' = [local EXCEPT
                   ![p] = EndIteration(
                            [local[p] EXCEPT
                               !.page_count = local[p].page_count + 1,
                               !.raised = ""],
                            "loop")]
    /\ UNCHANGED <<in_progress, finished, errored, count, files, crawler_errors, job, run>>

\* lines 171-173: r.srem(in_progress, next_path); page_count += 1; continue
ExSrem(p) ==
    /\ At(p, "ex_srem")
    /\ in_progress' = srem(in_progress, local[p].next_path)
    /\ local' = [local EXCEPT
                   ![p] = EndIteration(
                            [local[p] EXCEPT
                               !.page_count = local[p].page_count + 1,
                               !.raised = ""],
                            "loop")]
    /\ UNCHANGED <<finished, errored, count, files, crawler_errors, job, run>>

\* an iteration that looks for links whatever find_more_links says
Soup_always_links(p) ==
    /\ At(p, "soup")
    /\ local' = [local EXCEPT
                   ![p].pc = "add_links",
                   ![p].links = page_links(job.allow, local[p].response.data),
                   ![p].idx = 1,
                   ![p].response = NoResponse]
    /\ UNCHANGED <<in_progress, finished, errored, count, files, crawler_errors, job, run>>

\* lines 175-177: parse the page; add_links starts with page_links(soup)
Soup(p) ==
    /\ At(p, "soup")
    /\ local' = [local EXCEPT
                   ![p].pc = IF job.find_more_links THEN "add_links"
                             ELSE "download_page",
                   ![p].links = IF job.find_more_links
                                THEN page_links(job.allow, local[p].response.data)
                                ELSE <<>>,
                   ![p].idx = 1,
                   ![p].response = NoResponse]
    /\ UNCHANGED <<in_progress, finished, errored, count, files, crawler_errors, job, run>>

\* add_links, lines 230-241: the next link of the page up to the decision
\* to add it; the 'Scary path' exception of url_from_href is raised outside
\* the try of crawl_domain and ends the crawl
AddLinks(p) ==
    /\ At(p, "add_links")
    /\ LET l == local[p]
           link == l.links[l.idx]
           href == HrefParts[link.href]
       IN  local' =
             IF l.idx > Len(l.links)
             THEN [local EXCEPT ![p].pc = "download_page",
                                ![p].links = <<>>, ![p].idx = 0]
             ELSE IF hidden_link(link) \/ Falsy(link.href)
             THEN [local EXCEPT ![p].idx = l.idx + 1]
             ELSE IF href.raised
             THEN [local EXCEPT ![p].pc = "aborted", ![p].raised = "Exception"]
             ELSE IF skip_link(job, finished, errored, href.domain, href.path)
             THEN [local EXCEPT ![p].idx = l.idx + 1]
             ELSE [local EXCEPT ![p].pc = "link_sadd",
                                ![p].link_path = href.path]
    /\ UNCHANGED <<in_progress, finished, errored, count, files, crawler_errors, job, run>>

\* line 244: r.sadd(in_progress, link_path)
LinkSadd(p) ==
    /\ At(p, "link_sadd")
    /\ in_progress' = sadd(in_progress, local[p].link_path)
    /\ local' = [local EXCEPT ![p].pc = "add_links",
                              ![p].idx = local[p].idx + 1,
                              ![p].link_path = None]
    /\ UNCHANGED <<finished, errored, count, files, crawler_errors, job, run>>

\* html.decode() of download_page: the bodies of a live site are bytes that
\* may or may not be UTF-8; the pages of the other sites are
Decodes(self) == IF self.site = "live" THEN BOOLEAN ELSE {TRUE}

\* a download_page whose exception the handler of line 165 catches
DownloadPage_in_try(p) ==
    /\ At(p, "download_page")
    /\ files' = files \cup {file_name(local[p].next_path)}
    /\ \E decoded \in Decodes(job) :
          local' = IF decoded
                   THEN [local EXCEPT ![p].pc = "complete_page"]
                   ELSE [local EXCEPT ![p].pc = "except",
                                      ![p].raised = "UnicodeDecodeError"]
    /\ UNCHANGED <<in_progress, finished, errored, count, crawler_errors, job, run>>

\* download_page, line 178: open() creates the file under its file name and
\* the body is written to it; a body that does not decode raises
\* UnicodeDecodeError, outside the try of crawl_domain
DownloadPage(p) ==
    /\ At(p, "download_page")
    /\ files' = files \cup {file_name(local[p].next_path)}
    /\ \E decoded \in Decodes(job) :
          local' = IF decoded
                   THEN [local EXCEPT ![p].pc = "complete_page"]
                   ELSE [local EXCEPT ![p].pc = "aborted",
                                      ![p].raised = "UnicodeDecodeError"]
    /\ UNCHANGED <<in_progress, finished, errored, count, crawler_errors, job, run>>

\* a complete_page that removes the path before it files it
CompletePage_srem_first(p) ==
    /\ At(p, "complete_page")
    /\ in_progress' = srem(in_progress, local[p].next_path)
    /\ local' = [local EXCEPT
                   ![p].pc = "cp_srem",
                   ![p].page_count = local[p].page_count + 1]
    /\ UNCHANGED <<finished, errored, count, files, crawler_errors, job, run>>

\* complete_page, lines 397-398: page_count += 1; r.sadd(finished, path)
CompletePage(p) ==
    /\ At(p, "complete_page")
    /\ finished' = sadd(finished, local[p].next_path)
    /\ local' = [local EXCEPT
                   ![p].pc = "cp_srem",
                   ![p].page_count = local[p].page_count + 1]
    /\ UNCHANGED <<in_progress, errored, count, files, crawler_errors, job, run>>

\* a complete_page that leaves the path in in_progress
CpSrem_keep(p) ==
    /\ At(p, "cp_srem")
    /\ Goto(p, "limit")
    /\ UNCHANGED <<in_progress, finished, errored, count, files, crawler_errors, job, run>>

\* complete_page, line 399: r.srem(in_progress, path)
CpSrem(p) ==
    /\ At(p, "cp_srem")
    /\ in_progress' = srem(in_progress, local[p].next_path)
    /\ Goto(p, "limit")
    /\ UNCHANGED <<finished, errored, count, files, crawler_errors, job, run>>

\* line 182: if self.page_count >= self.limit
LimitTest(p) ==
    /\ At(p, "limit")
    /\ Goto(p, IF local[p].page_count >= job.limit THEN "lim_srem" ELSE "sleep")
    /\ UNCHANGED <<in_progress, finished, errored, count, files, crawler_errors, job, run>>

\* a page limit that throws the rest of the frontier away
LimSrem_clear(p) ==
    /\ At(p, "lim_srem")
    /\ in_progress' = {}
    /\ local' = [local EXCEPT ![p] = EndIteration(local[p], "done")]
    /\ UNCHANGED <<finished, errored, count, files, crawler_errors, job, run>>

\* lines 183-184: r.srem(in_progress, next_path); break
LimSrem(p) ==
    /\ At(p, "lim_srem")
    /\ in_progress' = srem(in_progress, local[p].next_path)
    /\ local' = [local EXCEPT ![p] = EndIteration(local[p], "done")]
    /\ UNCHANGED <<finished, errored, count, files, crawler_errors, job, run>>

\* line 187: sleep(1), then the next iteration
Sleep(p) ==
    /\ At(p, "sleep")
    /\ local' = [local EXCEPT ![p] = EndIteration(local[p], "loop")]
    /\ UNCHANGED <<in_progress, finished, errored, count, files, crawler_errors, job, run>>

\* a fresh crawler object of the same job calls crawl_domain on the same
\* store, after the previous call has returned or raised; the new object
\* is built with the same options, or with find_more_links=False to drain
\* the frontier the store holds
Restart(p) ==
    /\ local[p].pc \in {"done", "aborted"}
    /\ run < MaxRuns
    /\ run' = run + 1
    /\ job' \in {job, [job EXCEPT !.find_more_links = FALSE]}
    /\ local' = [local EXCEPT ![p] = FreshLocal]
    /\ UNCHANGED <<in_progress, finished, errored, count, files, crawler_errors>>

Next ==
    \E p \in Procs :
        \/ CheckInProgress(p) \/ Seed(p) \/ LoopTest(p) \/ Sample(p)
        \/ Pick(p) \/ Fetch(p)
        \/ HandleRedirection(p) \/ HrSrem(p) \/ HrSaddFinished(p)
        \/ HrSaddInProgress(p)
        \/ LogCrawlerError(p) \/ ExSadd(p) \/ ExSrem(p)
        \/ Soup(p) \/ AddLinks(p) \/ LinkSadd(p)
        \/ DownloadPage(p) \/ CompletePage(p) \/ CpSrem(p)
        \/ LimitTest(p) \/ LimSrem(p) \/ Sleep(p)
        \/ Restart(p)

Spec == Init /\ [][Next]_vars

\* the process keeps running: no step that can be taken is postponed forever
FairSpec == Spec /\ WF_vars(Next)

-----------------------------------------------------------------------------
(* Properties                                                              *)

\* positions of crawl_domain between two iterations: the loop test, the
\* steps before the request, and the return
LoopHead == {"loop", "sample", "pick", "fetch", "done"}

\* the sets a path is a member of
SetsOf(path) ==
    {name \in {"in_progress", "finished", "errored"} :
        \/ name = "in_progress" /\ path \in in_progress
        \/ name = "finished" /\ path \in finished
        \/ name = "errored" /\ path \in errored}

\* C1 as stated: in the first run on an empty store every path is in at
\* most one of in_progress, finished and errored in every state, the states
\* between two store operations of an iteration included.
C1_PartitionAtAnyTime ==
    run = 1 =>
        \A path \in in_progress \cup finished \cup errored :
            Cardinality(SetsOf(path)) <= 1

\* C1 amended: in the first run on an empty store, at the head of every
\* loop iteration and at the return of crawl_domain, no member of
\* in_progress is a member of finished or of errored.
C1_PendingDisjointAtLoopHead ==
    run = 1 =>
        \A p \in Procs :
            local[p].pc \in LoopHead =>
                in_progress \cap (finished \cup errored) = {}

\* C1 witness: the first run is at the loop test with paths pending,
\* finished and errored
C1_Witness ==
    /\ run = 1
    /\ \E p \in Procs : local[p].pc = "loop"
    /\ in_progress # {} /\ finished # {} /\ errored # {}

\* the job of test_site_crawl: the mock site, no allow or avoid list, link
\* discovery on, the default page limit (larger than the site)
MockSiteJob(avoid) ==
    /\ job.site = "mock"
    /\ job.allow = <<>>
    /\ job.avoid = avoid
    /\ job.find_more_links
    /\ job.limit > Cardinality(DOMAIN pages)

\* the paths one link away from a set of paths of the mock site
LinkedFrom(paths) ==
    {url_from_href(a.href).path :
        a \in UNION {{pages[u][i] : i \in 1..Len(pages[u])} :
                        u \in {job.base_url \o q : q \in paths}
                              \cap DOMAIN pages}}

\* the paths of the mock site reachable from a set of paths by links
RECURSIVE ReachableFrom(_)
ReachableFrom(paths) ==
    IF LinkedFrom(paths) \subseteq paths THEN paths
    ELSE ReachableFrom(paths \cup LinkedFrom(paths))

\* C2: a crawl of the mock site (connected, no allow/avoid, no failing
\* request, limit above the number of pages) returns, and when it has
\* returned every page reachable from the start path is in finished (the 4
\* pages) and in_progress is empty.
C2_SiteCrawlTerminates ==
    /\ [](\A p \in Procs :
            MockSiteJob({}) /\ local[p].pc = "done" =>
                /\ finished = ReachableFrom({job.path})
                /\ Cardinality(finished) = 4
                /\ in_progress = {})
    /\ \A p \in Procs :
          (MockSiteJob({}) /\ local[p].pc = "start") ~> (local[p].pc = "done")

\* C2 witness: the crawl of the mock site has returned with 4 finished paths
C2_Witness ==
    /\ MockSiteJob({})
    /\ \E p \in Procs : local[p].pc = "done"
    /\ Cardinality(finished) = 4
    /\ in_progress = {}

RedirectIteration(p) ==
    /\ local[p].old_path # None
    /\ ~Falsy(local[p].new_path)

\* positions of a redirect iteration after the srem of line 207
AfterHrSrem ==
    {"hr_sadd_finished", "hr_sadd_in_progress", "soup", "add_links",
     "link_sadd", "download_page", "complete_page", "cp_srem", "limit",
     "lim_srem", "sleep", "aborted"}

\* positions of an iteration after complete_page has added to finished
AfterCompletePage == {"cp_srem", "limit", "lim_srem", "sleep"}

\* the parts of C4 about finished: after line 208 the old path is in
\* finished, after complete_page the new path is
C4_FinishedParts(p) ==
    /\ local[p].pc \in AfterHrSrem \ {"hr_sadd_finished"} =>
          local[p].old_path \in finished
    /\ local[p].pc \in AfterCompletePage => local[p].new_path \in finished

\* C4 as stated: in a redirect iteration the old path is placed in
\* finished, the new path is in finished at the end of the iteration, and
\* in no state of the iteration are the old and the (different) new path
\* both members of in_progress.
C4_NeverBothPending ==
    \A p \in Procs :
        RedirectIteration(p) =>
            /\ C4_FinishedParts(p)
            /\ local[p].old_path # local[p].new_path =>
                  ~(/\ local[p].old_path \in in_progress
                    /\ local[p].new_path \in in_progress)

\* C4 amended: in a redirect iteration the old path is placed in finished,
\* the new path is in finished once complete_page has run, and from the
\* srem of handle_redirection on the old path (when it differs from the
\* new one) is not in in_progress for the rest of the iteration.
C4_OldRemovedBeforeNewAdded ==
    \A p \in Procs :
        RedirectIteration(p) =>
            /\ C4_FinishedParts(p)
            /\ local[p].old_path # local[p].new_path
               /\ local[p].pc \in AfterHrSrem =>
                  local[p].old_path \notin in_progress

\* C4 witness: a redirect iteration from one path to another has run
\* complete_page
C4_Witness ==
    \E p \in Procs :
        /\ RedirectIteration(p)
        /\ local[p].old_path # local[p].new_path
        /\ local[p].pc = "limit"
        /\ {local[p].old_path, local[p].new_path} \subseteq finished

\* positions of the error handler of lines 165-173
InHandler == {"except", "ex_sadd", "ex_srem"}

\* C5: when the request of the picked path raises, the handler adds the
\* path to errored, removes it from in_progress, leaves finished as it is,
\* and goes back to the loop test.
C5_ErrorIsolated ==
    [][\A p \in Procs :
          local[p].pc \in InHandler /\ local'[p] # local[p] =>
              /\ finished' = finished
              /\ local[p].pc = "ex_sadd" => local[p].next_path \in errored'
              /\ local[p].pc = "ex_srem" =>
                    /\ local[p].next_path \in errored
                    /\ local[p].next_path \notin in_progress'
                    /\ local'[p].pc = "loop"]_vars

\* C5 witness: after a failed request the crawl is back at the loop test
\* with the failed path errored and another path pending
C5_Witness ==
    \E p \in Procs :
        /\ local[p].pc = "loop"
        /\ errored # {} /\ errored \cap finished = {}
        /\ in_progress # {} /\ in_progress \cap errored = {}

\* positions inside an iteration, from the sample step to its last step
InIteration ==
    {"sample", "pick", "fetch", "redirected", "hr_srem", "hr_sadd_finished",
     "hr_sadd_in_progress", "except", "ex_sadd", "ex_srem", "soup",
     "add_links", "link_sadd", "download_page", "complete_page", "cp_srem",
     "limit", "lim_srem", "sleep"}

\* C6: page_count never decreases during a call of crawl_domain, changes by
\* single increments, and every iteration that ends (by continue, by the
\* sleep, or by the break of the page limit) ends with page_count exactly
\* one above its value at the loop test that began the iteration
\* (iter_base), whether the request succeeded, was redirected or failed.
C6_CountsEachIteration ==
    [][\A p \in Procs :
          /\ local'[p].pc # "start" =>
                local'[p].page_count \in
                    {local[p].page_count, local[p].page_count + 1}
          /\ local[p].pc \in InIteration /\ local'[p].pc \in {"loop", "done"} =>
                local'[p].page_count = local[p].iter_base + 1
          /\ local[p].pc \in InIteration /\ local'[p].pc \in InIteration =>
                local'[p].iter_base = local[p].iter_base]_vars

\* C6 witness: three iterations have ended, one of them with a failed
\* request, one with a redirect and one with a page downloaded directly
C6_Witness ==
    \E p \in Procs :
        /\ local[p].pc = "loop"
        /\ local[p].page_count = 3
        /\ errored # {}
        /\ Cardinality(finished) = 3
        /\ Cardinality(files) = 2

\* C7: link discovery adds no path that is a member of finished or errored
\* at the moment of the sadd, and the sadd of a path that is already in
\* in_progress leaves in_progress as it is.
C7_LinkDiscoveryAddsOnlyNew ==
    [][\A p \in Procs :
          local[p].pc = "link_sadd" /\ local'[p] # local[p] =>
              /\ local[p].link_path \notin finished \cup errored
              /\ local[p].link_path \in in_progress' 
              /\ local[p].link_path \in in_progress =>
                    in_progress' = in_progress]_vars

\* C7 witness: add_links has passed over the last link of a page, whose
\* path is finished and not pending, without adding it
C7_Witness ==
    \E p \in Procs :
        /\ local[p].pc = "add_links"
        /\ local[p].links # <<>>
        /\ local[p].idx = Len(local[p].links) + 1
        /\ local[p].links[Len(local[p].links)].href \in finished \ in_progress

\* C8 as stated: a path that is in finished or errored (and not pending) is
\* never added to in_progress by any step, in this run or a later one.
C8_NeverPendingAgain ==
    [][\A path \in (finished \cup errored) \ in_progress :
          path \notin in_progress']_vars

\* C8 amended: a path that is in finished or errored is never added to
\* in_progress again by link discovery; the only steps that add such a
\* path are the seeding of a run that finds in_progress empty and the sadd
\* of the new path in redirect consolidation.
C8_OnlySeedAndRedirectReAdd ==
    [][\A path \in (finished \cup errored) \ in_progress :
          path \in in_progress' =>
              \E p \in Procs :
                  \/ local[p].pc = "seed" /\ path = job.path
                  \/ /\ local[p].pc = "hr_sadd_in_progress"
                     /\ path = local[p].new_path]_vars

\* C8 witness: a later run has seeded the start path, which is finished
C8_Witness ==
    /\ run = 2
    /\ \E p \in Procs : local[p].pc = "loop"
    /\ job.path \in in_progress \cap finished

\* C9 as stated: when handle_redirection cannot extract the new path of a
\* redirected response, the exception ends the crawl; it is not handled as
\* the error of one path, with the path filed under errored and the loop
\* going back to its test.
C9_MissingTargetIsFatal ==
    [][\A p \in Procs :
          /\ local[p].raised # ""
          /\ local[p].response.redirect = 0
          => ~(/\ local[p].next_path \in errored
               /\ local'[p].pc = "loop")]_vars

\* C10 as stated: a malformed protocol-relative href does not end the
\* crawl; the link is dropped and add_links goes on.
C10_MalformedLinkDropped ==
    \A p \in Procs :
        /\ local[p].links # <<>>
        /\ local[p].idx \in 1..Len(local[p].links)
        /\ url_from_href(local[p].links[local[p].idx].href).raised
        => local[p].pc # "aborted"

\* C11 as stated: no request is made once page_count has reached the page
\* limit, whether the limit was reached by a downloaded or by a failed
\* page, and page_count never exceeds the limit.
C11_NoFetchAtLimit ==
    \A p \in Procs :
        /\ local[p].pc = "fetch" => local[p].page_count < job.limit
        /\ local[p].page_count <= job.limit

\* C12: the startup of crawl_domain changes no set when it tests
\* in_progress; it goes to the seeding exactly when in_progress is empty,
\* whatever finished and errored hold, and the seeding adds the start path
\* and nothing else; with a non-empty in_progress it goes to the loop
\* without adding the start path.
C12_SeedOnlyWhenEmpty ==
    [][\A p \in Procs :
          /\ local[p].pc = "start" /\ local'[p] # local[p] =>
                /\ in_progress' = in_progress
                /\ local'[p].pc = "seed" <=> in_progress = {}
                /\ local'[p].pc = "loop" <=> in_progress # {}
          /\ local[p].pc = "seed" /\ local'[p] # local[p] =>
                /\ in_progress' = in_progress \cup {job.path}
                /\ local'[p].pc = "loop"]_vars

\* C12 witness: a later run found a frontier left by the run before it and
\* is at its first loop test without the start path, which is finished
C12_Witness ==
    /\ run = 2
    /\ \E p \in Procs :
          /\ local[p].pc = "loop"
          /\ local[p].page_count = 0
    /\ in_progress # {}
    /\ job.path \in finished \ in_progress

\* the paths link discovery of the job takes from the page of a path of the
\* mock site, with nothing finished or errored
SiteLinks(self, path) ==
    LET url == self.base_url \o path
        links == IF self.find_more_links /\ url \in DOMAIN pages
                 THEN page_links(self.allow, pages[url])
                 ELSE <<>>
        Added(link) ==
            /\ ~hidden_link(link)
            /\ ~Falsy(link.href)
            /\ ~url_from_href(link.href).raised
            /\ ~skip_link(self, {}, {}, url_from_href(link.href).domain,
                          url_from_href(link.href).path)
    IN  {url_from_href(links[i].href).path :
            i \in {k \in 1..Len(links) : Added(links[k])}}

\* the paths of the mock site the job reaches from a set of paths
RECURSIVE Crawled(_, _)
Crawled(self, paths) ==
    LET more == UNION {SiteLinks(self, path) : path \in paths}
    IN  IF more \subseteq paths THEN paths
        ELSE Crawled(self, paths \cup more)

\* C13: on the mock site (no failing request) with link discovery on, every
\* call of crawl_domain that returns with in_progress empty, in the first
\* run or in a run that continues the frontier a page limit left behind,
\* returns with the same finished set: the pages the job reaches from the
\* start path, which does not depend on the page limit.
C13_ResumedCrawlSameResult ==
    \A p \in Procs :
        /\ job.site = "mock"
        /\ job.find_more_links
        /\ local[p].pc = "done"
        /\ in_progress = {}
        => /\ finished = Crawled(job, {job.path})
           /\ errored = {}

\* C13 witness: the first run was stopped by the small page limit with
\* pages pending, and the run that continued it has returned with the
\* frontier empty and the 4 pages finished
C13_Witness ==
    /\ job.site = "mock" /\ job.find_more_links
    /\ job.limit = SmallLimit
    /\ run = 2
    /\ \E p \in Procs : local[p].pc = "done" /\ local[p].page_count > 0
    /\ in_progress = {}
    /\ Cardinality(finished) = Cardinality(DOMAIN pages)
    /\ Cardinality(files) = Cardinality(DOMAIN pages)

\* C17: while find_more_links is off, crawl_domain never reaches add_links;
\* the only steps that add a path to in_progress are the seeding (the start
\* path) and the sadd of handle_redirection (the new path); and the number
\* of iterations of the call, page_count, never exceeds the size in_progress
\* had when the startup was over (frontier0): between two iterations
\* page_count and the size of in_progress together stay within it.
C17_DrainOnlyFrontier ==
    /\ [](\A p \in Procs :
            ~job.find_more_links =>
                /\ local[p].pc \notin {"add_links", "link_sadd"}
                /\ local[p].pc \notin {"start", "seed"} =>
                      local[p].page_count <= local[p].frontier0
                /\ local[p].pc \in {"loop", "done"} =>
                      local[p].page_count + scard(in_progress)
                          <= local[p].frontier0)
    /\ [][\A p \in Procs :
            ~job.find_more_links /\ ~(in_progress' \subseteq in_progress) =>
                \/ /\ local[p].pc = "seed"
                   /\ in_progress' = in_progress \cup {job.path}
                \/ /\ local[p].pc = "hr_sadd_in_progress"
                   /\ in_progress' = in_progress \cup {local[p].new_path}]_vars

\* C17 witness: a run with find_more_links off found two paths pending
\* and has returned after two iterations with the frontier empty
C17_Witness ==
    /\ ~job.find_more_links
    /\ job.site = "mock"
    /\ \E p \in Procs :
          /\ local[p].pc = "done"
          /\ local[p].frontier0 = 2
          /\ local[p].page_count = 2
    /\ in_progress = {}
    /\ Cardinality(finished) = Cardinality(DOMAIN pages)

\* self.crawl.path_pattern = r"home" of test_scrapable_page_by_url: the
\* paths the job of the test takes for scrapable
path_pattern == <<"h", "o", "m", "e">>

\* C20 as stated: a page that was fetched and written and whose path
\* matches the job's path pattern is not added to finished (it is recorded
\* under the fourth key instead).
C20_ScrapableNotFinished ==
    \A path \in finished :
        file_name(path) \in files => ~HasSub(path, path_pattern)

\* C21 as stated: in a BFS run, every iteration that is followed by another
\* one (in_progress is not empty when it ends) ends with the sleep of line
\* 187, an iteration whose request failed included; so a delay lies between
\* any two consecutive requests.
C21_DelayBetweenFetches ==
    [][\A p \in Procs :
          /\ local'[p].pc = "loop"
          /\ local[p].pc \notin {"start", "seed", "loop"}
          /\ in_progress' # {}
          => local[p].pc = "sleep"]_vars

\* the href of the link add_links is looking at, resolved
Candidate(p) == HrefParts[local[p].links[local[p].idx].href]

\* the tests of C24 on a resolved href
Acceptable(self, href) ==
    /\ ~Falsy(href.path)
    /\ Len(href.path) <= MaxPathLen
    /\ ~HasSub(href.path, HTTP)
    /\ Falsy(href.domain) \/ same_domains(self.domain, href.domain)

\* C24: the path link discovery is about to add (line 244) is the path of
\* the href it resolved, is not empty, is at most 120 characters long, has
\* no "http" in it, and its href names no domain or one that passes
\* same_domains; and a step of add_links on a candidate that fails one of
\* these tests does not go to the sadd.
C24_AddedLinksPassFilters ==
    /\ [](\A p \in Procs :
            local[p].pc = "link_sadd" =>
                /\ local[p].link_path = Candidate(p).path
                /\ Acceptable(job, Candidate(p)))
    /\ [][\A p \in Procs :
            /\ local[p].pc = "add_links"
            /\ local[p].idx <= Len(local[p].links)
            /\ ~Candidate(p).raised
            /\ ~Acceptable(job, Candidate(p))
            => /\ local'[p].pc # "link_sadd"
               /\ in_progress' = in_progress]_vars

\* C24 witness: add_links has turned down the long path, the path with
\* 'http' and the url of another domain, and adds the path of a url that
\* names the domain of the job
C24_Witness ==
    \E p \in Procs :
        /\ local[p].pc = "link_sadd"
        /\ local[p].idx = 5
        /\ ~Falsy(Candidate(p).domain)
        /\ \A i \in 2..4 :
              ~Acceptable(job, HrefParts[local[p].links[i].href])

\* the paths of the records of the error log
LoggedPaths == {crawler_errors[i].path : i \in DOMAIN crawler_errors}

\* C25: the error log only grows, one record at a time, and only in the
\* first step of an error handler, where the record names the failed path
\* and its exception and carries no note; every handler logs; the sadd to
\* errored is the step after it and adds the path of the last record; so
\* records and additions to errored come in pairs, record first, and the
\* paths in the log are the members of errored (with the path being
\* handled between the two steps).
C25_OneRecordPerFailure ==
    /\ [][\A p \in Procs :
            /\ crawler_errors' # crawler_errors =>
                  /\ local[p].pc = "except"
                  /\ crawler_errors' =
                        Append(crawler_errors,
                               [path |-> local[p].next_path,
                                error_type |-> local[p].raised])
            /\ local[p].pc = "except" /\ local'[p] # local[p] =>
                  /\ Len(crawler_errors') = Len(crawler_errors) + 1
                  /\ errored' = errored
                  /\ local'[p].pc = "ex_sadd"
            /\ errored' # errored => local[p].pc = "ex_sadd"
            /\ local[p].pc = "ex_sadd" /\ local'[p] # local[p] =>
                  /\ errored' = errored \cup {local[p].next_path}
                  /\ crawler_errors' = crawler_errors
                  /\ crawler_errors[Len(crawler_errors)].path
                        = local[p].next_path]_vars
    /\ [](\A p \in Procs :
            LoggedPaths =
                errored \cup (IF local[p].pc = "ex_sadd"
                              THEN {local[p].next_path} ELSE {}))

\* C25 witness: the request of a path has failed twice (the path came back
\* into in_progress as the new path of a redirect): the log has two records
\* of it and errored one member
C25_Witness ==
    /\ Len(crawler_errors) = 2
    /\ crawler_errors[1].path = crawler_errors[2].path
    /\ Cardinality(errored) = 1
    /\ \E p \in Procs : local[p].pc = "loop"

\* the paths a redirect of the live site can land on
RedirectTargets ==
    {FinalUrlParts[url][3] : url \in LiveFinalUrls \ {None}}

\* C29 as stated: in the first run on an empty store, at the head of every
\* iteration and at the return of crawl_domain, no path is in two of
\* in_progress, finished and errored.
C29_PairwiseDisjointAtLoopHead ==
    run = 1 =>
        \A p \in Procs :
            local[p].pc \in LoopHead =>
                /\ in_progress \cap finished = {}
                /\ in_progress \cap errored = {}
                /\ finished \cap errored = {}

\* C29 amended: in the first run on an empty store, at the head of every
\* iteration and at the return of crawl_domain, in_progress shares no path
\* with finished or errored; a path is in both finished and errored only
\* when a redirect has landed on it.
C29_OverlapOnlyAtRedirectTargets ==
    run = 1 =>
        \A p \in Procs :
            local[p].pc \in LoopHead =>
                /\ in_progress \cap finished = {}
                /\ in_progress \cap errored = {}
                /\ finished \cap errored \subseteq RedirectTargets

\* C29 witness: the first run is at the loop test with a path that is both
\* finished and errored (its request failed, then a redirect landed on it)
C29_Witness ==
    /\ run = 1
    /\ \E p \in Procs : local[p].pc = "loop"
    /\ finished \cap errored # {}
    /\ LoggedPaths = errored

\* the path an iteration picked: the old path when it was redirected
Picked(p) ==
    IF local[p].old_path # None THEN local[p].old_path
    ELSE local[p].next_path

\* C30: with link discovery on, the path an iteration picks is a member of
\* in_progress; link discovery adds no path that is in finished or errored;
\* and the step that ends the iteration leaves the picked path in finished
\* or errored and out of in_progress, with the path the iteration ended on
\* (the new path of a redirect) out of in_progress too.  So every iteration
\* moves a path into finished or errored or takes one that was already
\* there out of in_progress, and every run of the crawl ends.
C30_BfsTerminates ==
    /\ [][\A p \in Procs :
            job.find_more_links =>
                /\ local[p].pc = "pick" /\ local'[p].pc = "fetch" =>
                      local'[p].next_path \in in_progress
                /\ local[p].pc = "link_sadd" /\ local'[p] # local[p] =>
                      local[p].link_path \notin finished \cup errored
                /\ (/\ local[p].pc \in {"ex_srem", "sleep", "lim_srem"}
                    /\ local'[p] # local[p]) =>
                      /\ Picked(p) \in finished' \cup errored'
                      /\ Picked(p) \notin in_progress'
                      /\ local[p].next_path \notin in_progress']_vars
    /\ \A p \in Procs :
          (job.find_more_links /\ local[p].pc = "loop")
              ~> (local[p].pc \in {"done", "aborted"})

\* C30 witness: a second run with link discovery on the live site has
\* returned, after requests that failed and requests that were redirected
C30_Witness ==
    /\ run = 2
    /\ job.site = "live" /\ job.find_more_links
    /\ \E p \in Procs : local[p].pc = "done"
    /\ errored # {}
    /\ finished \cap RedirectTargets # {}
    /\ in_progress = {}

\* C34: a path enters finished in two ways only.  complete_page adds the
\* path of the iteration, and the step before complete_page is the write of
\* the page file of that path, in the same iteration; handle_redirection
\* adds the path that was requested and answered with a followed redirect.
C34_FinishedMeansPersistedOrRedirected ==
    [][\A p \in Procs :
          /\ finished' # finished =>
                \/ /\ local[p].pc = "complete_page"
                   /\ finished' = finished \cup {local[p].next_path}
                   /\ file_name(local[p].next_path) \in files
                \/ /\ local[p].pc = "hr_sadd_finished"
                   /\ finished' = finished \cup {local[p].old_path}
                   /\ local[p].response.redirect = 0
                   /\ local[p].current_url = job.base_url \o local[p].old_path
          /\ local'[p].pc = "complete_page" /\ local[p].pc # "complete_page" =>
                /\ local[p].pc \in {"download_page", "write_page"}
                /\ local'[p].next_path = local[p].next_path
                /\ files' = files \cup {file_name(local[p].next_path)}]_vars

\* C34 witness: at the loop test finished holds a path whose page file is
\* written and the source of a redirect, which has no file
C34_Witness ==
    /\ \E p \in Procs : local[p].pc = "loop"
    /\ \E x \in finished : file_name(x) \in files
    /\ \E y \in finished : file_name(y) \notin files

\* a call of crawl_domain on the mock site that follows an earlier call and
\* has seeded the start path: the earlier crawl had left in_progress empty
Rerun(p) == run >= 2 /\ job.site = "mock" /\ local[p].seeded

\* C35: when crawl_domain is called again after a crawl of an unchanged
\* site has ended with in_progress empty, the call seeds the start path and
\* makes one request, that of the start path; no step of it changes
\* finished or errored; it does not raise; and it returns, after one
\* iteration, with in_progress empty.
C35_RerunFetchesStartOnly ==
    /\ [][\A p \in Procs :
            Rerun(p) =>
                /\ finished' = finished
                /\ errored' = errored
                /\ local[p].pc = "fetch" /\ local'[p] # local[p] =>
                      /\ local[p].current_url = job.start_url
                      /\ local[p].page_count = 0]_vars
    /\ [](\A p \in Procs :
            Rerun(p) =>
                /\ local[p].pc # "aborted"
                /\ local[p].pc = "done" =>
                      /\ in_progress = {}
                      /\ local[p].page_count = 1)
    /\ \A p \in Procs : [](Rerun(p) => <>(local[p].pc = "done"))

\* C35 witness: the first call crawled the four pages of the site, and the
\* second call has returned after one iteration
C35_Witness ==
    \E p \in Procs :
        /\ Rerun(p)
        /\ local[p].pc = "done"
        /\ local[p].page_count = 1
        /\ Cardinality(finished) = Cardinality(DOMAIN pages)
        /\ in_progress = {}

\* the path contains one of the avoid substrings of the job
Avoided(path) == \E substring \in job.avoid : HasSub(path, substring)

OutsideTry == {"Exception", "UnicodeDecodeError"}

\* C38: an exception of link discovery or of the write of the page is not
\* handled: the step that raises ends crawl_domain and changes neither the
\* sets nor the error log nor page_count; the path of the iteration is then
\* still in in_progress and page_count is what it was at the loop test; and
\* the next call of crawl_domain starts with that path in in_progress.
C38_RaiseOutsideTryAborts ==
    /\ [][\A p \in Procs :
            /\ local[p].pc \in {"add_links", "download_page"}
               /\ local'[p] # local[p] =>
                  /\ local'[p].pc \in {"add_links", "link_sadd",
                                       "download_page", "complete_page",
                                       "aborted"}
                  /\ UNCHANGED <<in_progress, finished, errored,
                                 crawler_errors>>
                  /\ local'[p].page_count = local[p].page_count
                  /\ local'[p].next_path = local[p].next_path
            /\ local[p].pc = "aborted" /\ local[p].raised \in OutsideTry
               /\ local'[p] # local[p] =>
                  /\ local'[p].pc = "start"
                  /\ local[p].next_path \in in_progress']_vars
    /\ [](\A p \in Procs :
            local[p].pc = "aborted" /\ local[p].raised \in OutsideTry =>
                /\ local[p].next_path \in in_progress
                /\ local[p].page_count = local[p].iter_base
                /\ LoggedPaths = errored)

\* C38 witness: the write of a page raised in the first call, which left
\* the file without the path being finished; the second call has picked
\* the path again
C38_Witness ==
    \E p \in Procs :
        /\ run = 2
        /\ local[p].pc = "fetch"
        /\ local[p].next_path \in in_progress
        /\ local[p].next_path \notin finished \cup errored
        /\ file_name(local[p].next_path) \in files

-----------------------------------------------------------------------------
(* A crawl process that is killed between two statements                   *)

\* the paths of the iteration under way that are in none of the three sets
Orphans(p) ==
    {path \in {local[p].next_path, local[p].old_path} \ {None} :
        path \notin in_progress \cup finished \cup errored}

\* the process dies where it stands: the store keeps what the calls made so
\* far have written, the object and its locals are gone
Crash(p) ==
    /\ local[p].pc \notin {"done", "aborted"}
    /\ local' = [local EXCEPT
                   ![p] = [FreshLocal EXCEPT
                             !.pc = "aborted", !.raised = "killed",
                             !.lost = local[p].lost \cup Orphans(p)]]
    /\ UNCHANGED <<in_progress, finished, errored, count, files, crawler_errors, job, run>>

\* the next run of the crawler on the same store (see Restart)
CrashRestart(p) ==
    /\ local[p].pc \in {"done", "aborted"}
    /\ run < MaxRuns
    /\ run' = run + 1
    /\ job' \in {job, [job EXCEPT !.find_more_links = FALSE]}
    /\ local' = [local EXCEPT
                   ![p] = [FreshLocal EXCEPT !.lost = local[p].lost]]
    /\ UNCHANGED <<in_progress, finished, errored, count, files, crawler_errors>>

CrashNext ==
    \E p \in Procs :
        \/ CheckInProgress(p) \/ Seed(p) \/ LoopTest(p) \/ Sample(p)
        \/ Pick(p) \/ Fetch(p)
        \/ HandleRedirection(p) \/ HrSrem(p) \/ HrSaddFinished(p)
        \/ HrSaddInProgress(p)
        \/ LogCrawlerError(p) \/ ExSadd(p) \/ ExSrem(p)
        \/ Soup(p) \/ AddLinks(p) \/ LinkSadd(p)
        \/ DownloadPage(p) \/ CompletePage(p) \/ CpSrem(p)
        \/ LimitTest(p) \/ Sleep(p)
        \/ Crash(p) \/ CrashRestart(p)

\* the jobs whose runs are killed: a live site, every link followed, the
\* default page limit (which the site does not reach)
CrashJobs ==
    {j \in Jobs : /\ j.site = "live" /\ j.allow = <<>> /\ j.avoid = {}
                  /\ j.find_more_links /\ j.limit = DefaultLimit}

CrashInit ==
    /\ in_progress = {}
    /\ finished = {}
    /\ errored = {}
    /\ count = <<>>
    /\ files = {}
    /\ crawler_errors = <<>>
    /\ job \in CrashJobs
    /\ run = 1
    /\ local = [p \in Procs |-> FreshLocal]

CrashSpec == CrashInit /\ [][CrashNext]_vars

\* a path a killed process has lost, that is still in none of the sets and
\* is not the path of the iteration under way
Lost(p) ==
    {path \in local[p].lost \ {local[p].next_path, local[p].old_path} :
        path \notin in_progress \cup finished \cup errored}

\* C23 as stated: a path that a killed process left in none of the three
\* sets comes back into in_progress only when link discovery adds it (the
\* sadd of add_links).
C23_LostOnlyRediscovered ==
    [][\A p \in Procs : \A path \in Lost(p) :
          path \in in_progress' => local[p].pc = "link_sadd"]_vars

\* C23 amended: a kill loses a path only between the srem and the sadd of
\* handle_redirection (lines 207-208; complete_page and the error handler
\* add before they remove); a lost path stays out of finished and errored
\* as long as it is out of in_progress, and it comes back into in_progress
\* by link discovery, by the seeding of a run that finds in_progress empty
\* (the start path), or as the new path of a redirect.
C23_LostUntilAddedAgain ==
    [][\A p \in Procs :
          /\ local'[p].lost # local[p].lost =>
                /\ local[p].pc = "hr_sadd_finished"
                /\ local'[p].lost = local[p].lost \cup {local[p].old_path}
          /\ \A path \in Lost(p) :
                /\ path \notin finished' \cup errored'
                /\ path \in in_progress' =>
                      local[p].pc \in
                          {"link_sadd", "seed", "hr_sadd_in_progress"}]_vars

\* C23 witness: a second run has returned and the path the killed first run
\* lost is still in none of the sets
C23_Witness ==
    /\ run = 2
    /\ \E p \in Procs : local[p].pc = "done" /\ Lost(p) # {}

-----------------------------------------------------------------------------
(* One BFS run over a site of more than ten pages                          *)

\* the job of the chain site: every link followed, the default page limit
ChainJobs == {BaseCrawler("chain", CHAIN_URL, <<>>, {}, TRUE, DefaultLimit)}

ChainInit ==
    /\ in_progress = {}
    /\ finished = {}
    /\ errored = {}
    /\ count = <<>>
    /\ files = {}
    /\ crawler_errors = <<>>
    /\ job \in ChainJobs
    /\ run = 1
    /\ local = [p \in Procs |-> FreshLocal]

ChainNext ==
    \E p \in Procs :
        \/ CheckInProgress(p) \/ Seed(p) \/ LoopTest(p) \/ Sample(p)
        \/ Pick(p) \/ Fetch(p)
        \/ LogCrawlerError(p) \/ ExSadd(p) \/ ExSrem(p)
        \/ Soup(p) \/ AddLinks(p) \/ LinkSadd(p)
        \/ DownloadPage(p) \/ CompletePage(p) \/ CpSrem(p)
        \/ LimitTest(p) \/ Sleep(p)

ChainSpec == ChainInit /\ [][ChainNext]_vars

\* ceil(n / 10)
CeilTenth(n) == (n + 9) \div 10

\* C27: the depth-sample list only grows, by one entry, in the step at the
\* head of an iteration, and exactly when page_count mod 10 is 0 there; the
\* entry is the size of in_progress at that moment, which is at least 1;
\* after n iterations the list has ceil(n / 10) entries (and, once the
\* sampling step of iteration n + 1 is done, ceil((n + 1) / 10)).
C27_SampleEveryTenth ==
    /\ [][\A p \in Procs :
            /\ count' # count =>
                  /\ local[p].pc = "sample"
                  /\ local[p].page_count % 10 = 0
                  /\ count' = Append(count, Cardinality(in_progress))
                  /\ Cardinality(in_progress) >= 1
            /\ (/\ local[p].pc = "sample"
                /\ local'[p] # local[p]
                /\ local[p].page_count % 10 = 0) =>
                  Len(count') = Len(count) + 1]_vars
    /\ [](\A p \in Procs :
            /\ local[p].pc \in {"loop", "sample", "done"} =>
                  Len(count) = CeilTenth(local[p].page_count)
            /\ local[p].pc \notin {"start", "seed", "loop", "sample", "done"} =>
                  Len(count) = CeilTenth(local[p].iter_base + 1))

\* C27 witness: the eleventh iteration has taken the second sample, and
\* there is a sample of more than one pending path
C27_Witness ==
    /\ Len(count) = 2
    /\ \E i \in DOMAIN count : count[i] > 1
    /\ \E p \in Procs : local[p].pc = "pick" /\ local[p].page_count = 10

-----------------------------------------------------------------------------
(* Two crawler processes on the same domain                                *)

Procs2 == {1, 2}

\* two crawler objects of the same job, each about to call crawl_domain, on
\* an empty store; the site is the mock site of the tests
Jobs2 ==
    {BaseCrawler("mock", START_URL, <<>>, {}, TRUE, limit) :
        limit \in {SmallLimit, DefaultLimit}}

Init2 ==
    /\ in_progress = {}
    /\ finished = {}
    /\ errored = {}
    /\ count = <<>>
    /\ files = {}
    /\ crawler_errors = <<>>
    /\ job \in Jobs2
    /\ run = 1
    /\ local = [p \in Procs2 |-> FreshLocal]

\* the store executes one command at a time: a step is one step of one of
\* the two processes
Next2 ==
    \E p \in Procs2 :
        \/ CheckInProgress(p) \/ Seed(p) \/ LoopTest(p) \/ Sample(p)
        \/ Pick(p) \/ Fetch(p)
        \/ Soup(p) \/ AddLinks(p) \/ LinkSadd(p)
        \/ DownloadPage(p) \/ CompletePage(p) \/ CpSrem(p)
        \/ LimitTest(p) \/ LimSrem(p) \/ Sleep(p)

Spec2 == Init2 /\ [][Next2]_vars

\* positions of an iteration after the request has returned a page
AfterFetch ==
    {"soup", "add_links", "link_sadd", "download_page", "complete_page",
     "cp_srem"}

\* C19: the pick leaves in_progress as it is, so the picked path stays a
\* member the other process can pick; a process removes a path from
\* in_progress only in the steps that follow its request (the srem of
\* complete_page and of the page limit), and what it removes there is the
\* path it picked.
C19_PickDoesNotRemove ==
    [][\A p \in Procs2 :
          /\ local[p].pc = "pick" /\ local'[p].pc = "fetch" =>
                /\ in_progress' = in_progress
                /\ local'[p].next_path \in in_progress'
          /\ local'[p] # local[p] /\ in_progress' # in_progress
             /\ in_progress' \subseteq in_progress =>
                /\ local[p].pc \in {"cp_srem", "lim_srem"}
                /\ in_progress' = in_progress \ {local[p].next_path}]_vars

\* C19 witness: both processes have picked the same path, both requests
\* have returned its page, and the path is still in in_progress
C19_Witness ==
    /\ local[1].pc \in AfterFetch
    /\ local[2].pc \in AfterFetch
    /\ local[1].next_path = local[2].next_path
    /\ local[1].next_path \in in_progress
    /\ local[1].next_path # job.path

-----------------------------------------------------------------------------
(* Two crawler processes on a site whose requests can fail                 *)

\* two crawler objects of the same job on an empty store, each about to
\* call crawl_domain
PairJobs == {BaseCrawler("pair", START_URL, <<>>, {}, TRUE, DefaultLimit)}

PairInit ==
    /\ in_progress = {}
    /\ finished = {}
    /\ errored = {}
    /\ count = <<>>
    /\ files = {}
    /\ crawler_errors = <<>>
    /\ job \in PairJobs
    /\ run = 1
    /\ local = [p \in Procs2 |-> FreshLocal]

\* one step of one of the two processes; neither reaches the page limit
PairNext ==
    \E p \in Procs2 :
        \/ CheckInProgress(p) \/ Seed(p) \/ LoopTest(p) \/ Sample(p)
        \/ Pick(p) \/ Fetch(p)
        \/ HandleRedirection(p) \/ HrSrem(p) \/ HrSaddFinished(p)
        \/ HrSaddInProgress(p)
        \/ LogCrawlerError(p) \/ ExSadd(p) \/ ExSrem(p)
        \/ Soup(p) \/ AddLinks(p) \/ LinkSadd(p)
        \/ DownloadPage(p) \/ CompletePage(p) \/ CpSrem(p)
        \/ LimitTest(p) \/ Sleep(p)

PairSpec == PairInit /\ [][PairNext]_vars

\* the paths the pair site answers with a redirect
PairRedirectSources == {PATH2}

\* C31: with two processes crawling the same domain, no path is ever a
\* member of both finished and errored.
C31_NeverFinishedAndErrored == finished \cap errored = {}

\* C31 amended: with two processes crawling the same domain a path can be
\* a member of both finished and errored.  It becomes one only in the sadd
\* of an error handler, of complete_page or of handle_redirection, run by
\* the process that is handling that path, while the path is already in the
\* other set; and every such path has a record in the error log (a request
\* of it failed) and either a page file (a request of it, or one redirected
\* to it, succeeded) or a followed redirect away from it.
C31_OverlapFromFailureAndSuccess ==
    /\ [][\A x \in (finished' \cap errored') \ (finished \cap errored) :
            \E p \in Procs2 :
                /\ local'[p] # local[p]
                /\ \/ local[p].pc = "ex_sadd"
                      /\ x = local[p].next_path /\ x \in finished
                   \/ local[p].pc = "complete_page"
                      /\ x = local[p].next_path /\ x \in errored
                   \/ local[p].pc = "hr_sadd_finished"
                      /\ x = local[p].old_path /\ x \in errored]_vars
    /\ [](\A x \in finished \cap errored :
            /\ x \in LoggedPaths
            /\ file_name(x) \in files \/ x \in PairRedirectSources)

\* C31 witness: the start page, which no redirect leaves or lands on, is in
\* finished and in errored: both processes picked it, the request of one
\* failed and the other wrote its page
C31_Witness ==
    /\ job.path \in finished \cap errored
    /\ job.path \in LoggedPaths
    /\ file_name(job.path) \in files

\* C32: with two processes crawling the same domain, link discovery in one
\* process never adds to in_progress a path that the other process has
\* already placed in finished: the membership check of skip_link and the
\* sadd that follows it behave as one step.
C32_CheckAndAddAreOneStep ==
    [][\A p \in Procs2 :
          local[p].pc = "link_sadd" /\ local'[p] # local[p] =>
              local[p].link_path \notin finished]_vars

\* C32 amended: the check of skip_link and the sadd of add_links are two
\* store operations.  At the check the path is in neither finished nor
\* errored; the sadd adds that path and nothing else; and a path that
\* enters finished between the two was put there by the other process.
C32_CheckThenAddIsTwoSteps ==
    [][\A p \in Procs2 :
          /\ local[p].pc = "add_links" /\ local'[p].pc = "link_sadd" =>
                /\ local'[p].link_path \notin finished \cup errored
                /\ UNCHANGED <<in_progress, finished, errored>>
          /\ local[p].pc = "link_sadd" /\ local'[p] # local[p] =>
                in_progress' = in_progress \cup {local[p].link_path}
          /\ /\ local[p].pc = "link_sadd"
             /\ local[p].link_path \notin finished
             /\ local[p].link_path \in finished'
             => \E q \in Procs2 \ {p} :
                   /\ local'[q] # local[q]
                   /\ local[q].pc \in {"complete_page", "hr_sadd_finished"}]_vars

\* C32 witness: a process has checked a link and is about to add it, and in
\* the meantime the other process has finished that path and taken it out
\* of in_progress
C32_Witness ==
    \E p \in Procs2 :
        /\ local[p].pc = "link_sadd"
        /\ local[p].link_path \in finished
        /\ local[p].link_path \notin in_progress

\* C33 as stated: a process that performs the pick after it has seen
\* count(in_progress) > 0 gets a path, also when a second process is
\* draining the same frontier; no process ends with an unhandled error
\* because the pick returned nothing.
C33_PickReturnsPath ==
    [][\A p \in Procs2 :
          local[p].pc = "pick" /\ local'[p] # local[p] =>
              /\ local'[p].pc = "fetch"
              /\ local'[p].next_path \in in_progress]_vars

-----------------------------------------------------------------------------
(* EpicuriousCrawler: the search loop (crawl_domain) and the drain pass    *)
(* (download_recipes), called one after the other by one process           *)

\* the crawler object of the search site: only links with 'recipes/' are
\* followed
EpicuriousJobs ==
    {BaseCrawler("epicurious", SEARCH_URL, << <<"r", "e", "c", "i", "p", "e", "s", "/">> >>, {}, fml, DefaultLimit) :
        fml \in BOOLEAN}

\* the locals of EpicuriousCrawler.crawl_domain(page_number) before its
\* first statement; loop names the method whose loop is running
EpicuriousLocal(page_number) ==
    [pc |-> "s_bound", loop |-> "search", page_number |-> page_number,
     page_count |-> 0, iter_base |-> 0, frontier0 |-> 0, lost |-> {},
     next_path |-> None, current_url |-> None, response |-> NoResponse,
     old_path |-> None, new_path |-> None,
     links |-> <<>>, idx |-> 0, link_path |-> None, raised |-> ""]

SearchInit ==
    /\ in_progress = {}
    /\ finished = {}
    /\ errored = {}
    /\ count = <<>>
    /\ files = {}
    /\ crawler_errors = <<>>
    /\ job \in EpicuriousJobs
    /\ run = 1
    /\ local \in {[p \in Procs |-> EpicuriousLocal(page_number)] :
                     page_number \in SearchStarts}

\* lines 18-20: if page_number > 2500: break
SearchBound(p) ==
    /\ At(p, "s_bound")
    /\ Goto(p, IF local[p].page_number > HardBound THEN "recipes"
               ELSE "s_member")
    /\ UNCHANGED <<in_progress, finished, errored, count, files, crawler_errors, job, run>>

\* a search loop that requests a page whether or not it is finished
SearchMember_noskip(p) ==
    /\ At(p, "s_member")
    /\ local' = [local EXCEPT
                   ![p].pc = "s_fetch",
                   ![p].next_path = SearchPath(local[p].page_number),
                   ![p].current_url =
                       job.base_url \o SearchPath(local[p].page_number)]
    /\ UNCHANGED <<in_progress, finished, errored, count, files, crawler_errors, job, run>>

\* lines 25-30: the path of the page number; a finished one is skipped
SearchMember(p) ==
    /\ At(p, "s_member")
    /\ LET next_path == SearchPath(local[p].page_number)
       IN  local' =
             IF sismember(finished, next_path)
             THEN [local EXCEPT ![p].pc = "s_bound",
                                ![p].page_number = local[p].page_number + 1]
             ELSE [local EXCEPT ![p].pc = "s_fetch",
                                ![p].next_path = next_path,
                                ![p].current_url = job.base_url \o next_path]
    /\ UNCHANGED <<in_progress, finished, errored, count, files, crawler_errors, job, run>>

\* line 33: the request of the search page, inside the try
SearchFetch(p) ==
    /\ At(p, "s_fetch")
    /\ \E response \in search_response(job, local[p].page_number) :
         local' = [local EXCEPT
                     ![p].pc = IF response.raised # "" THEN "except"
                               ELSE IF response.redirect = 0 THEN "redirected"
                               ELSE "soup",
                     ![p].raised = response.raised,
                     ![p].response = response]
    /\ UNCHANGED <<in_progress, finished, errored, count, files, crawler_errors, job, run>>

\* a handler of the search loop that stays on the failed page number
SearchExSrem_retry(p) ==
    /\ At(p, "ex_srem") /\ local[p].loop = "search"
    /\ in_progress' = srem(in_progress, local[p].next_path)
    /\ local' = [local EXCEPT
                   ![p] = EndIteration([local[p] EXCEPT !.raised = ""],
                                       "s_bound")]
    /\ UNCHANGED <<finished, errored, count, files, crawler_errors, job, run>>

\* lines 44-47: r.srem(in_progress, next_path); page_number += 1; continue
SearchExSrem(p) ==
    /\ At(p, "ex_srem") /\ local[p].loop = "search"
    /\ in_progress' = srem(in_progress, local[p].next_path)
    /\ local' = [local EXCEPT
                   ![p] = EndIteration(
                            [local[p] EXCEPT
                               !.page_number = local[p].page_number + 1,
                               !.raised = ""],
                            "s_bound")]
    /\ UNCHANGED <<finished, errored, count, files, crawler_errors, job, run>>

\* lines 49-55: the sentinel page ends the loop; otherwise add_links starts
SearchSoup(p) ==
    /\ At(p, "soup") /\ local[p].loop = "search"
    /\ local' =
         IF end_search_crawl(local[p].response.data)
         THEN [local EXCEPT ![p] = EndIteration(local[p], "recipes")]
         ELSE [local EXCEPT
                 ![p].pc = IF job.find_more_links THEN "add_links"
                           ELSE "download_page",
                 ![p].links = IF job.find_more_links
                              THEN page_links(job.allow, local[p].response.data)
                              ELSE <<>>,
                 ![p].idx = 1,
                 ![p].response = NoResponse]
    /\ UNCHANGED <<in_progress, finished, errored, count, files, crawler_errors, job, run>>

\* EpicuriousCrawler.download_page(soup, path), lines 114-120.  The search
\* loop calls it with html, the bytes of the response (line 57), and
\* soup.select_one of line 115 raises AttributeError outside the try.  The
\* drain pass calls it with the parsed page (line 97) and goes on to
\* download_image.
EpicuriousDownloadPage(p) ==
    /\ At(p, "download_page")
    /\ IF local[p].loop = "search"
       THEN local' = [local EXCEPT ![p].pc = "aborted",
                                   ![p].raised = "AttributeError"]
       ELSE Goto(p, "download_image")
    /\ UNCHANGED <<in_progress, finished, errored, count, files, crawler_errors, job, run>>

\* the name of the image file of a page: file_name and the file type of
\* the image url (line 141-143)
img_file_name(path) == file_name(path) \o <<".", "j", "p", "g">>

\* soup.select_one('div.recipe-image img') with a srcset (lines 133-134):
\* of the pages of the site, the recipe pages show an image
has_image(path) == path \in {RECIPE_A, RECIPE_B}

\* download_image, lines 133-149 and 154-156: a page without an image, or
\* whose image file exists, is left alone; otherwise the image is requested
\* and written, or the request raises
DownloadImage(p) ==
    /\ At(p, "download_image")
    /\ LET img == has_image(local[p].next_path)
       IN
         IF ~img \/ img_file_name(local[p].next_path) \in files
         THEN /\ Goto(p, "write_page")
              /\ UNCHANGED files
         ELSE \E response \in {Raised("HTTPError"), Response(1, None, <<>>)} :
                IF response.raised # ""
                THEN /\ local' = [local EXCEPT ![p].pc = "image_except",
                                               ![p].raised = response.raised]
                     /\ UNCHANGED files
                ELSE /\ files' = files \cup {img_file_name(local[p].next_path)}
                     /\ Goto(p, "write_page")
    /\ UNCHANGED <<in_progress, finished, errored, count, crawler_errors, job, run>>

\* download_image, lines 150-152: the handler names next_path, which is not
\* a name of download_image nor of the module: evaluating the arguments of
\* log_crawler_error raises NameError, nothing is logged, and the exception
\* leaves download_page and download_recipes
ImageExcept(p) ==
    /\ At(p, "image_except")
    /\ local' = [local EXCEPT ![p].pc = "aborted", ![p].raised = "NameError"]
    /\ UNCHANGED <<in_progress, finished, errored, count, files, crawler_errors, job, run>>

\* download_page, lines 122-123: the page is written under its file name
WritePage(p) ==
    /\ At(p, "write_page")
    /\ files' = files \cup {file_name(local[p].next_path)}
    /\ Goto(p, "complete_page")
    /\ UNCHANGED <<in_progress, finished, errored, count, crawler_errors, job, run>>

\* the call of download_recipes after crawl_domain has returned (line 426)
DownloadRecipes(p) ==
    /\ At(p, "recipes")
    /\ local' = [local EXCEPT ![p].pc = "d_loop", ![p].loop = "drain"]
    /\ UNCHANGED <<in_progress, finished, errored, count, files, crawler_errors, job, run>>

\* line 77: while r.scard(in_progress) > 0
DrainLoopTest(p) ==
    /\ At(p, "d_loop")
    /\ Goto(p, IF scard(in_progress) > 0 THEN "d_pick" ELSE "done")
    /\ UNCHANGED <<in_progress, finished, errored, count, files, crawler_errors, job, run>>

\* lines 78-79: srandmember and the url of the picked path
DrainPick(p) ==
    /\ At(p, "d_pick")
    /\ IF in_progress = {}
       THEN local' = [local EXCEPT ![p].pc = "aborted",
                                   ![p].raised = "AttributeError"]
       ELSE \E member \in in_progress :
              local' = [local EXCEPT
                          ![p].pc = "d_fetch",
                          ![p].next_path = member,
                          ![p].current_url = job.base_url \o member]
    /\ UNCHANGED <<in_progress, finished, errored, count, files, crawler_errors, job, run>>

\* line 82: the request of the picked path, inside the try
DrainFetch(p) ==
    /\ At(p, "d_fetch")
    /\ \E response \in recipe_response(job, local[p].current_url) :
         local' = [local EXCEPT
                     ![p].pc = IF response.raised # "" THEN "except"
                               ELSE IF response.redirect = 0 THEN "redirected"
                               ELSE "soup",
                     ![p].raised = response.raised,
                     ![p].response = response]
    /\ UNCHANGED <<in_progress, finished, errored, count, files, crawler_errors, job, run>>

\* lines 93-94: r.srem(in_progress, next_path); continue
DrainExSrem(p) ==
    /\ At(p, "ex_srem") /\ local[p].loop = "drain"
    /\ in_progress' = srem(in_progress, local[p].next_path)
    /\ local' = [local EXCEPT
                   ![p] = EndIteration([local[p] EXCEPT !.raised = ""],
                                       "d_loop")]
    /\ UNCHANGED <<finished, errored, count, files, crawler_errors, job, run>>

\* line 96: the page is parsed; no link is looked for
DrainSoup(p) ==
    /\ At(p, "soup") /\ local[p].loop = "drain"
    /\ local' = [local EXCEPT ![p].pc = "download_page",
                              ![p].response = NoResponse]
    /\ UNCHANGED <<in_progress, finished, errored, count, files, crawler_errors, job, run>>

\* complete_page, line 399, called from line 98
DrainCpSrem(p) ==
    /\ At(p, "cp_srem") /\ local[p].loop = "drain"
    /\ in_progress' = srem(in_progress, local[p].next_path)
    /\ Goto(p, "d_sleep")
    /\ UNCHANGED <<finished, errored, count, files, crawler_errors, job, run>>

\* line 101: sleep(1), then the next iteration
DrainSleep(p) ==
    /\ At(p, "d_sleep")
    /\ local' = [local EXCEPT ![p] = EndIteration(local[p], "d_loop")]
    /\ UNCHANGED <<in_progress, finished, errored, count, files, crawler_errors, job, run>>

\* the script is run again on the same store, after download_recipes has
\* returned or one of the two methods has raised
SearchRestart(p) ==
    /\ local[p].pc \in {"done", "aborted"}
    /\ run < MaxRuns
    /\ run' = run + 1
    /\ \E page_number \in SearchStarts :
          local' = [local EXCEPT ![p] = EpicuriousLocal(page_number)]
    /\ UNCHANGED <<in_progress, finished, errored, count, files, crawler_errors, job>>

SearchNext ==
    \E p \in Procs :
        \/ SearchBound(p) \/ SearchMember(p) \/ SearchFetch(p)
        \/ HandleRedirection(p) \/ HrSrem(p) \/ HrSaddFinished(p)
        \/ HrSaddInProgress(p)
        \/ LogCrawlerError(p) \/ ExSadd(p) \/ SearchExSrem(p)
        \/ SearchSoup(p) \/ AddLinks(p) \/ LinkSadd(p)
        \/ EpicuriousDownloadPage(p) \/ DownloadImage(p) \/ ImageExcept(p)
        \/ WritePage(p)
        \/ DownloadRecipes(p)
        \/ DrainLoopTest(p) \/ DrainPick(p) \/ DrainFetch(p)
        \/ DrainExSrem(p) \/ DrainSoup(p)
        \/ CompletePage(p) \/ DrainCpSrem(p) \/ DrainSleep(p)
        \/ SearchRestart(p)

SearchSpec == SearchInit /\ [][SearchNext]_vars

\* the process keeps running until the script has ended
FairSearchSpec == SearchSpec /\ WF_vars(SearchNext)

\* C14: the search loop requests a page only when the path of its page
\* number is not in finished; when the path is in finished at the test of
\* line 26, the step requests nothing: it moves the cursor by one, goes
\* back to the head of the loop and leaves every set as it is.
C14_FinishedPageSkipped ==
    /\ [](\A p \in Procs :
            local[p].pc = "s_fetch" =>
                /\ local[p].next_path = SearchPath(local[p].page_number)
                /\ local[p].next_path \notin finished)
    /\ [][\A p \in Procs :
            /\ local[p].pc = "s_member"
            /\ SearchPath(local[p].page_number) \in finished
            /\ local'[p] # local[p]
            => /\ local'[p].pc = "s_bound"
               /\ local'[p].page_number = local[p].page_number + 1
               /\ UNCHANGED <<in_progress, finished, errored, count,
                              files, crawler_errors>>]_vars

\* C14 witness: the second run of the script has passed page 1, whose path
\* a redirect of the first run left in finished, and is at page 2
C14_Witness ==
    /\ run = 2
    /\ SearchPath(1) \in finished
    /\ SearchPath(1) \notin errored
    /\ \E p \in Procs :
          /\ local[p].pc = "s_bound"
          /\ local[p].page_number = 2

\* C15: the cursor of the search loop starts at the page number of the
\* call (1 by default) and stays within 1..2501; no page number above 2500 is requested; the cursor never goes
\* back, every step that returns to the head of the loop has moved it by
\* exactly one, and a fetched page that shows the sentinel ends the loop;
\* and the loop always ends (by its break at the sentinel or at the hard
\* bound, or by an exception that leaves crawl_domain), whatever requests
\* fail or redirect and whatever the store holds.
C15_SearchTerminates ==
    /\ \A p \in Procs : local[p].page_number \in SearchStarts
    /\ [](\A p \in Procs :
            local[p].loop = "search" =>
                /\ local[p].page_number \in 1..(HardBound + 1)
                /\ local[p].pc = "s_fetch" =>
                      local[p].page_number <= HardBound)
    /\ [][\A p \in Procs :
            /\ run' # run => local'[p].page_number \in SearchStarts
            /\ local[p].loop = "search" /\ run' = run =>
                  /\ local'[p].page_number \in
                        {local[p].page_number, local[p].page_number + 1}
                  /\ local[p].pc # "s_bound" /\ local'[p].pc = "s_bound" =>
                        local'[p].page_number = local[p].page_number + 1
                  /\ (/\ local[p].pc = "soup"
                      /\ end_search_crawl(local[p].response.data)
                      /\ local'[p] # local[p]) =>
                        local'[p].pc = "recipes"]_vars
    /\ \A p \in Procs :
          (local[p].loop = "search" /\ local[p].pc = "s_bound")
              ~> (local[p].pc \in {"recipes", "aborted"})

\* C15 witness: the requests of the pages 2499 and 2500 have failed and
\* the loop has ended at the hard bound
C15_Witness ==
    /\ \E p \in Procs :
          /\ local[p].pc = "recipes"
          /\ local[p].page_number = HardBound + 1
    /\ {SearchPath(HardBound - 1), SearchPath(HardBound)} \subseteq errored

\* C16 as stated: when the process that ran the search loop with link
\* discovery on and then the drain pass has ended, in_progress is empty.
C16_SearchThenDrainEmpties ==
    \A p \in Procs :
        /\ job.find_more_links
        /\ local[p].loop = "drain"
        /\ local[p].pc \in {"done", "aborted"}
        => in_progress = {}

\* C22 as stated: when the request of a page's image fails in the drain
\* pass, the handler appends one record with the note 'image' for the page
\* and returns: the page is still written, then completed, and the loop
\* goes on.
C22_ImageFailureRecovered ==
    [][\A p \in Procs :
          local[p].pc = "image_except" /\ local'[p] # local[p] =>
              /\ local'[p].pc = "write_page"
              /\ Len(crawler_errors') = Len(crawler_errors) + 1
              /\ crawler_errors'[Len(crawler_errors')].path = local[p].next_path
              /\ "note" \in DOMAIN crawler_errors'[Len(crawler_errors')]]_vars

\* C26 as stated: in the search loop and in the drain pass, as in the BFS
\* loop, the step that ends the handling of a path (the last step of the
\* error handler, or complete_page) adds one to page_count.
C26_CountsEveryProcessedPath ==
    [][\A p \in Procs :
          /\ local[p].pc \in {"ex_srem", "complete_page"}
          /\ local'[p] # local[p]
          => local'[p].page_count = local[p].page_count + 1]_vars

\* C28: in one run of the search loop the cursor never goes back, and once
\* a page number has been requested the loop comes back to its head only
\* with the cursor on the next page number, so no page number is requested
\* twice; the handler of a failed request ends with the path in errored,
\* its record last in the error log, and the cursor moved by one.
C28_FailedPageNotRetried ==
    [][\A p \in Procs :
          local[p].loop = "search" /\ run' = run =>
              /\ local'[p].page_number >= local[p].page_number
              /\ (/\ local[p].pc \notin {"s_bound", "s_member"}
                  /\ local'[p].pc \in {"s_bound", "s_member", "s_fetch"}) =>
                    /\ local'[p].pc = "s_bound"
                    /\ local'[p].page_number = local[p].page_number + 1
              /\ local[p].pc = "ex_srem" /\ local'[p] # local[p] =>
                    /\ local[p].next_path \in errored'
                    /\ crawler_errors'[Len(crawler_errors')].path
                          = local[p].next_path
                    /\ local'[p].page_number = local[p].page_number + 1]_vars

\* C28 witness: the request of page 1 has failed in the first run, its path
\* is in errored and in the log, and the loop is about to request page 2
C28_Witness ==
    /\ run = 1
    /\ SearchPath(1) \in errored
    /\ Len(crawler_errors) = 1
    /\ crawler_errors[1].path = SearchPath(1)
    /\ \E p \in Procs :
          /\ local[p].pc = "s_fetch"
          /\ local[p].page_number = 2

\* the paths of the search pages whose request can fail
SearchPaths == {SearchPath(n) : n \in VolatilePages}

\* C37: across repeated runs of the search loop on the same store, no path
\* of a search page is a member of both errored and finished.
C37_SearchPageNeverInBoth ==
    \A path \in SearchPaths : path \notin finished \cap errored

\* C37 amended: within the first run no path of a search page is in both
\* errored and finished.  A later run requests a page that is in errored
\* again, because only finished is looked up before the request, and
\* nothing takes a path out of errored: the page joins both sets in the
\* sadd to finished of handle_redirection, when the new request is answered
\* after a redirect.  A page that is in finished is not requested again, so
\* no error handler adds a finished search page to errored.
C37_RetriedPageStaysErrored ==
    /\ [][\A path \in SearchPaths :
            path \in (finished' \cap errored') \ (finished \cap errored) =>
                \E p \in Procs :
                    /\ run >= 2
                    /\ local[p].pc = "hr_sadd_finished"
                    /\ local[p].loop = "search"
                    /\ path = local[p].old_path
                    /\ path \in errored
                    /\ path \in LoggedPaths]_vars
    /\ [](run = 1 => \A path \in SearchPaths : path \notin finished \cap errored)

\* C37 witness: the request of the first search page failed in the first
\* run and was answered in the second: the page is in errored and finished
C37_Witness ==
    /\ run = 2
    /\ SearchPath(1) \in finished \cap errored
    /\ SearchPath(1) \in LoggedPaths

-----------------------------------------------------------------------------
(* same_domains as a function: every pair of a job domain and a candidate  *)

WWW == <<"w", "w", "w", ".">>

\* hosts the two sides of same_domains are drawn from: a few domains, with
\* and without a leading "www.", a leading "w" or "ww.", and a trailing "/"
HostNames ==
    { <<"e", "x", "a", "m", "p", "l", "e", ".", "c", "o", "m">>,
      <<"o", "t", "h", "e", "r", ".", "c", "o", "m">>,
      <<"w", "e", "b", "s", "i", "t", "e", ".", "c", "o", "m">>,
      <<"e", "b", "s", "i", "t", "e", ".", "c", "o", "m">> }
HostPrefixes == {<<>>, WWW, <<"w">>, <<"w", "w", ".">>}
Hosts ==
    {pre \o name \o post :
        pre \in HostPrefixes, name \in HostNames, post \in {<<>>, <<"/">>}}

\* a crawler object with a domain, and a candidate domain (None and "" for
\* a link without one) handed to same_domains
SameDomainsInit ==
    /\ in_progress = {} /\ finished = {} /\ errored = {}
    /\ count = <<>> /\ files = {} /\ crawler_errors = <<>> /\ run = 1
    /\ job \in {[domain |-> d] : d \in Hosts}
    /\ local \in {[p \in Procs |-> [pc |-> "same_domains", domain |-> c,
                                     returned |-> FALSE]] :
                     c \in Hosts \cup {None, <<>>}}

\* the call self.same_domains(domain)
CallSameDomains(p) ==
    /\ At(p, "same_domains")
    /\ local' = [local EXCEPT
                   ![p].pc = "returned",
                   ![p].returned = same_domains(job.domain, local[p].domain)]
    /\ UNCHANGED <<in_progress, finished, errored, count, files, crawler_errors, job, run>>

SameDomainsNext == \E p \in Procs : CallSameDomains(p)

SameDomainsSpec == SameDomainsInit /\ [][SameDomainsNext]_vars

\* a host without one leading "www." and without its trailing "/"s
StripWww(host) ==
    rstrip(IF StartsWith(host, WWW) THEN Drop(host, Len(WWW)) ELSE host, {"/"})

\* C18 as stated: same_domains returns true exactly when the candidate is
\* unset or the job's domain and the candidate are equal after one leading
\* "www." and the trailing "/"s are removed from both.
C18_SameDomainsPrefixStrip ==
    \A p \in Procs :
        local[p].pc = "returned" =>
            local[p].returned =
                (\/ Falsy(local[p].domain)
                 \/ StripWww(job.domain) = StripWww(local[p].domain))

-----------------------------------------------------------------------------
(* File names: download_page writes the pages of a crawl, and the script   *)
(* of epicurious.py lists the download directory and recovers the url path *)
(* of every page file                                                      *)

DOT_HTML == <<".", "h", "t", "m", "l">>
SEPARATOR == <<"_", "-", "_">>

\* s.endswith(t)
EndsWith(s, t) ==
    Len(s) >= Len(t) /\ SubSeq(s, Len(s) - Len(t) + 1, Len(s)) = t

\* s.replace(old, new) for a string old: the occurrences are taken from the
\* left and do not overlap
RECURSIVE replace_str(_, _, _)
replace_str(s, old, new) ==
    IF Len(s) < Len(old) THEN s
    ELSE IF StartsWith(s, old)
         THEN new \o replace_str(Drop(s, Len(old)), old, new)
         ELSE <<Head(s)>> \o replace_str(Tail(s), old, new)

\* f'{file_name}.html' of download_page
html_file(path) == file_name(path) \o DOT_HTML

\* line 437: url_path = fn.replace('_-_', '/').rstrip('.html'); rstrip takes
\* a set of characters
url_path(fn) ==
    rstrip(replace_str(fn, SEPARATOR, <<"/">>), {".", "h", "t", "m", "l"})

\* path segments: plain ones, one that ends in a character of '.html', and
\* one that holds the separator
Segments ==
    { <<"a">>, <<"b">>, <<"l">>, <<"a", "_", "-", "_", "b">> }

\* the paths whose pages are written: the paths of the modelled sites, and
\* paths of one and two segments
FilePaths ==
    {HOME, PATH1, PATH2, PATH3, ABOUT, RECIPE_A, RECIPE_B}
    \cup {<<"/">> \o s : s \in Segments}
    \cup {<<"/">> \o s \o <<"/">> \o t : s \in Segments, t \in Segments}

\* a crawl that is about to write the pages of two paths (paths), and the
\* url paths the script has recovered so far, by file name (url_paths)
FileNameInit ==
    /\ in_progress = {} /\ finished = {} /\ errored = {}
    /\ count = <<>> /\ files = {} /\ crawler_errors = <<>> /\ run = 1
    /\ job \in PairJobs
    /\ local \in {[p \in Procs |-> [pc |-> "download_page",
                                     paths |-> <<x, y>>, idx |-> 1,
                                     url_paths |-> {}]] :
                     x \in FilePaths, y \in FilePaths}

\* download_page, lines 370-371: the page of the next path is written
WriteFile(p) ==
    /\ At(p, "download_page")
    /\ files' = files \cup {html_file(local[p].paths[local[p].idx])}
    /\ local' = [local EXCEPT
                   ![p].idx = local[p].idx + 1,
                   ![p].pc = IF local[p].idx = Len(local[p].paths)
                             THEN "listdir" ELSE "download_page"]
    /\ UNCHANGED <<in_progress, finished, errored, count, crawler_errors, job, run>>

\* lines 434-437: the next page file of the directory and its url path
ListDir(p) ==
    /\ At(p, "listdir")
    /\ \E fn \in files :
          /\ EndsWith(fn, DOT_HTML)
          /\ \A pair \in local[p].url_paths : pair[1] # fn
          /\ local' = [local EXCEPT
                         ![p].url_paths = @ \cup {<<fn, url_path(fn)>>}]
    /\ UNCHANGED <<in_progress, finished, errored, count, files, crawler_errors, job, run>>

FileNameNext == \E p \in Procs : WriteFile(p) \/ ListDir(p)

FileNameSpec == FileNameInit /\ [][FileNameNext]_vars

\* C39 as stated: distinct paths are written to distinct files, and the url
\* path the script recovers from the file of a path is that path without
\* its leading "/".
C39_FileNameRoundTrip ==
    \A p \in Procs :
        local[p].pc = "listdir" =>
            /\ local[p].paths[1] # local[p].paths[2] =>
                  html_file(local[p].paths[1]) # html_file(local[p].paths[2])
            /\ \A i \in DOMAIN local[p].paths :
                  \A pair \in local[p].url_paths :
                      pair[1] = html_file(local[p].paths[i]) =>
                          pair[2] = Tail(local[p].paths[i])

====
